---- MODULE Spec2Model ----
(***************************************************************************)
(* A model of dyntastic's write coordinators: the TransactionWriter        *)
(* (transact.py), the BatchWriter (batch.py) and the dispatch of           *)
(* save/delete/update through Dyntastic._dyntastic_call (main.py), against *)
(* a small model of the store they talk to.                                *)
(***************************************************************************)
EXTENDS Integers, Sequences, FiniteSets, TLC

(***************************************************************************)
(* Program constants.                                                      *)
(***************************************************************************)
\* transact.py:11
TRANSACTION_MAX_ITEMS == 100

\* batch.py:36 / main.py:400: the default batch_size, the store's ceiling of
\* request items per batch_write_item call
BATCH_MAX_ITEMS == 25

\* batch.py:11: invoke_with_backoff(max_attempts=5)
max_attempts == 5

\* transact.py:15, main.py:748: ContextVar(default=None); a writer id of 0 is None
NoWriter == 0

\* main.py:34: __table_region__ defaults to None
NoRegion == "None"

\* transact.py:58: _first_table starts as None
NoTable == "None"

(***************************************************************************)
(* Bounds of the model.                                                    *)
(***************************************************************************)
\* writes issued in a behaviour of SpecTx, of SpecBatch, of Spec
MaxTxOps == 3
MaxBatchOps == 3
\* add() calls in a behaviour of SpecBatchFail
MaxBatchFailOps == 3
MaxOps == 3
\* manual commit() calls that reach the store in a behaviour of SpecTx
MaxManualCommits == 1
\* writes issued in a behaviour of SpecTxCap: passes TRANSACTION_MAX_ITEMS
MaxTxCapOps == 102
\* adds issued in a behaviour of SpecBatchCap: passes BATCH_MAX_ITEMS
MaxBatchCapOps == 27
\* writes issued in a behaviour of SpecUpdate
MaxUpdateOps == 3
\* updates issued in a behaviour of SpecCompile, and the actions of one update
MaxCompileOps == 1
MaxActions == 3
\* updates issued in a behaviour of SpecRequest, and the arguments of one update
MaxRequestOps == 1
MaxCalls == 2
\* the nesting depth of the values handed to serialize in SpecSerialize
MaxDepth == 2
\* writes issued in a behaviour of SpecInstance
MaxInstanceOps == 3
\* writes issued in a behaviour of SpecQuery, the keys they may use, and the
\* rows the store examines for one page when the request has no Limit
MaxQueryOps == 3
MaxRows == 3
MaxPageRows == 2
\* compilations (str() of an action, translate_updates) in a behaviour of
\* SpecPrint, and the actions of one translate_updates call there
MaxPrintOps == 3
MaxPrintActions == 2
\* writes issued in a behaviour of SpecTxFlows, of SpecBatchFlows
MaxTxFlowOps == 3
MaxBatchFlowOps == 3

(***************************************************************************)
(* Input domains.                                                          *)
(***************************************************************************)
Flows == {"main", "other"}
MainFlow == "main"

\* Model types: Table and Table2 share the default region, TableWest is in
\* us-west-2 (test_transact_write.py:11-30, 48-53).
Tables == {"Table", "Table2", "TableWest"}
table_region(t) == IF t = "TableWest" THEN "us-west-2" ELSE NoRegion

TxWriters == {1, 2}
BatchWriters == {1, 2}

\* the store operations of save() and delete() (main.py:342, 345)
WriteOps == {"put_item", "delete_item"}

\* The writes a flow issues: save() or delete() of one key of one model type,
\* with or without a condition on the stored item.
W(t, operation, k, c) == [table |-> t, operation |-> operation, key |-> k, cond |-> c]
TxWrites ==
    {W("Table", "put_item", 1, "none"), W("Table", "delete_item", 1, "exists"),
     W("Table2", "put_item", 2, "none"), W("TableWest", "put_item", 1, "none")}
BatchWrites ==
    {W("Table", "put_item", 1, "none"), W("Table", "delete_item", 1, "none"),
     W("Table", "put_item", 2, "exists"), W("Table2", "put_item", 1, "none")}
BothWrites ==
    {W("Table", "put_item", 1, "none"), W("Table", "delete_item", 1, "exists"),
     W("Table2", "put_item", 1, "none")}
\* the writes of two concurrent flows
FlowWrites ==
    {W("Table", "put_item", 1, "none"), W("Table", "delete_item", 1, "exists")}
FlowCommitEveryInputs == {2}
FlowBatchSizeInputs == {2}
\* requests handed to writer.add() directly
BatchAdds == {W("Table", "put_item", 1, "none"), W("Table", "delete_item", 2, "none")}

\* commit_every values handed to transaction() in SpecTx, Spec, SpecTxCap
CommitEveryInputs == {0, 1, 2, 3, TRANSACTION_MAX_ITEMS + 1}
BothCommitEveryInputs == {2}
CapCommitEveryInputs == {0, 50, TRANSACTION_MAX_ITEMS}
\* batch_size values handed to batch_writer() in SpecBatch, Spec, SpecBatchCap
BatchSizeInputs == {0, 1, 2, 3}
BothBatchSizeInputs == {2}
BatchCapSizeInputs == {1, 2, 3, BATCH_MAX_ITEMS, BATCH_MAX_ITEMS + 1}

VARIABLES
    tw,                      \* TransactionWriter objects, by id
    transaction_writer_var,  \* _transaction_writer_var: its value in each flow
    bw,                      \* BatchWriter objects, by id
    batch_writer_attr,       \* the class attribute _dyntastic_batch_writer of each model type
    stack,                   \* per flow: the with-scopes it is inside, innermost last
    table_items,             \* the store: the keys present in each table
    tx_calls,                \* every transact_write_items call made, in order
    bw_calls,                \* every batch_write_item call made, in order
    next_id,                 \* the number of writes issued so far, plus one
    result,                  \* what the last operation did (returned or raised)
    unrefreshed              \* the instances whose _dyntastic_unrefreshed is True

vars == <<tw, transaction_writer_var, bw, batch_writer_attr, stack, table_items,
          tx_calls, bw_calls, next_id, result, unrefreshed>>

(***************************************************************************)
(* The store (external collaborator, main.py:63 of the boundary): a table  *)
(* is the set of keys it holds.                                            *)
(***************************************************************************)
\* the literal of the condition `A.hash_key == "1"`
eq_value == "1"
\* a condition on one key: attribute_exists / attribute_not_exists of the hash
\* key, or the hash key compared with a literal
condition_holds(db, t, k, c) ==
    CASE c = "exists" -> k \in db[t]
      [] c = "not_exists" -> k \notin db[t]
      [] c = "eq" -> k \in db[t] /\ ToString(k) = eq_value
      [] OTHER -> TRUE

\* the operations that leave their key present, and those that remove it
PutKinds == {"Put", "Update", "PutRequest"}
DeleteKinds == {"Delete", "DeleteRequest"}

\* put_item, delete_item, update_item on one key
apply_write(db, t, op, k) ==
    CASE op \in PutKinds -> [db EXCEPT ![t] = @ \cup {k}]
      [] op \in DeleteKinds -> [db EXCEPT ![t] = @ \ {k}]
      [] OTHER -> db

\* the store after the writes of ops, applied in order: a key is present when
\* the last write to it put it, or when no write touched it and it was present
apply_all(db, ops) ==
    [t \in DOMAIN db |->
        LET touched == {ops[i].key : i \in {j \in 1..Len(ops) : ops[j].table = t}}
            writes(k) == {i \in 1..Len(ops) :
                            /\ ops[i].table = t /\ ops[i].key = k
                            /\ ops[i].op \in PutKinds \cup DeleteKinds}
            last(k) == CHOOSE i \in writes(k) : \A j \in writes(k) : j <= i
        IN  {k \in db[t] \cup touched :
                IF writes(k) = {} THEN k \in db[t] ELSE ops[last(k)].op \in PutKinds}]

\* transact_write_items: all or nothing.  The store cancels the transaction when
\* it holds more than TRANSACTION_MAX_ITEMS operations (transact.py:9-11), when
\* two operations target one item (test_transact_write.py:125-140) or when a
\* condition fails (test_transact_write.py:263-272).
transact_accepts(db, ops) ==
    /\ Len(ops) <= TRANSACTION_MAX_ITEMS
    /\ \A i, j \in 1..Len(ops) :
          (i # j) => ~(ops[i].table = ops[j].table /\ ops[i].key = ops[j].key)
    /\ \A i \in 1..Len(ops) : condition_holds(db, ops[i].table, ops[i].key, ops[i].cond)

(***************************************************************************)
(* TransactionWriter (transact.py:49-104).                                 *)
(***************************************************************************)
NoToken == [held |-> FALSE, old |-> NoWriter]

\* a writer id that no `transaction(...)` call has produced yet
TxAbsent ==
    [made |-> FALSE, items |-> <<>>, auto_commit |-> FALSE,
     commit_max |-> 0, batches_submitted |-> 0, first_table |-> NoTable,
     token |-> NoToken]

\* __init__ (transact.py:50-59), after its assertion passed
TransactionWriter_init(ac, ce) ==
    [made |-> TRUE, items |-> <<>>, auto_commit |-> ac,
     commit_max |-> ce, batches_submitted |-> 0, first_table |-> NoTable,
     token |-> NoToken]

\* variant: __exit__ commits whatever the exit reason
TransactionWriter_exit_commits_always(exc) == TRUE

\* __exit__ (transact.py:70): `if not exc_type:` decides whether to commit
TransactionWriter_exit_commits(exc) == ~exc

\* variant: a commit that went through forgets the first-registered table
TransactionWriter_commit_unpins(w, db) ==
    IF w.items # <<>>
    THEN LET ok == transact_accepts(db, w.items)
             call == [items |-> w.items, ok |-> ok, client |-> w.first_table]
         IN  IF ok
             THEN [w |-> [w EXCEPT !.items = <<>>,
                                   !.batches_submitted = @ + 1,
                                   !.first_table = NoTable],
                   calls |-> <<call>>, db |-> apply_all(db, w.items),
                   raised |-> "none"]
             ELSE [w |-> w, calls |-> <<call>>, db |-> db, raised |-> "StoreError"]
    ELSE [w |-> w, calls |-> <<>>, db |-> db, raised |-> "none"]

\* commit (transact.py:73-79) of writer record w against the store db: the
\* writer afterwards, the calls made, the store afterwards, and whether the
\* store's error was raised
TransactionWriter_commit(w, db) ==
    IF w.items # <<>>
    THEN LET ok == transact_accepts(db, w.items)
             call == [items |-> w.items, ok |-> ok, client |-> w.first_table]
         IN  IF ok
             THEN [w |-> [w EXCEPT !.items = <<>>,
                                   !.batches_submitted = @ + 1],
                   calls |-> <<call>>, db |-> apply_all(db, w.items),
                   raised |-> "none"]
             ELSE [w |-> w, calls |-> <<call>>, db |-> db, raised |-> "StoreError"]
    ELSE [w |-> w, calls |-> <<>>, db |-> db, raised |-> "none"]

\* variant: the ceiling test written as "past the ceiling"
at_max_items_past(w) == Len(w.items) > TRANSACTION_MAX_ITEMS

\* _at_max_items (transact.py:90-91)
at_max_items(w) == Len(w.items) = TRANSACTION_MAX_ITEMS

\* _at_commit_max (transact.py:93-94)
at_commit_max(w) == Len(w.items) = w.commit_max

\* variant: the region assertion left out
register_table_ok_unchecked(w, t) == TRUE

\* _register_table (transact.py:81-88): does its assertion pass
register_table_ok(w, t) ==
    w.first_table = NoTable \/ table_region(w.first_table) = table_region(t)

\* variant: the operation is appended before the table is registered
TransactionWriter_add_appends_first(w, t, item, db) ==
    IF ~w.auto_commit /\ at_max_items(w)
    THEN [w |-> w, calls |-> <<>>, db |-> db, raised |-> "MaxItemsError"]
    ELSE LET w1 == [w EXCEPT !.first_table = IF @ = NoTable THEN t ELSE @,
                             !.items = Append(@, item)]
         IN  IF ~register_table_ok(w, t)
             THEN [w |-> w1, calls |-> <<>>, db |-> db, raised |-> "AssertionError"]
             ELSE IF w1.auto_commit /\ at_commit_max(w1)
             THEN TransactionWriter_commit(w1, db)
             ELSE [w |-> w1, calls |-> <<>>, db |-> db, raised |-> "none"]

\* add (transact.py:96-104)
TransactionWriter_add(w, t, item, db) ==
    IF ~w.auto_commit /\ at_max_items(w)
    THEN [w |-> w, calls |-> <<>>, db |-> db, raised |-> "MaxItemsError"]
    ELSE IF ~register_table_ok(w, t)
    THEN [w |-> w, calls |-> <<>>, db |-> db, raised |-> "AssertionError"]
    ELSE LET w1 == [w EXCEPT !.first_table = IF @ = NoTable THEN t ELSE @,
                             !.items = Append(@, item)]
         IN  IF w1.auto_commit /\ at_commit_max(w1)
             THEN TransactionWriter_commit(w1, db)
             ELSE [w |-> w1, calls |-> <<>>, db |-> db, raised |-> "none"]

(***************************************************************************)
(* Batch submission (batch.py:7-32, main.py:403-414).                      *)
(***************************************************************************)
\* How the store answers the batch_write_item calls of one submission: the
\* request items it reports back as UnprocessedItems on the attempt-th call.
\*   "all":   every call processes everything it was sent
\*   "once":  the first call leaves its last item unprocessed
\*   "stuck": every call leaves its last item unprocessed
StorePlans == {"all", "once", "stuck"}

\* the plans of SpecBatchFail; "error": the call `f(RequestItems=...)`
\* (batch.py:19) raises the store's error and nothing of the request is written
FailPlans == {"all", "stuck", "error"}

store_raises(plan) == plan = "error"

unprocessed_of(sent, attempt, plan) ==
    CASE plan = "once" /\ attempt = 1 -> <<sent[Len(sent)]>>
      [] plan = "stuck" -> <<sent[Len(sent)]>>
      [] OTHER -> <<>>

\* variant: the whole request is sent again
resubmission_whole(sent, response_unprocessed) == sent

\* batch.py:22: `unprocessed_items = response[unprocessed_key]`, the request of
\* the next call
resubmission(sent, response_unprocessed) == response_unprocessed

\* invoke_with_backoff (batch.py:7-32), from the top of its while loop:
\* the calls made (each with the UnprocessedItems of its response), the store
\* afterwards, and the error raised if any
RECURSIVE invoke_with_backoff(_, _, _, _, _, _)
invoke_with_backoff(t, unprocessed_items, attempts, plan, calls, db) ==
    IF unprocessed_items = <<>>
    THEN [calls |-> calls, db |-> db, raised |-> "none"]
    ELSE IF store_raises(plan)
    THEN [calls |-> Append(calls, [table |-> t, items |-> unprocessed_items,
                                   unprocessed |-> unprocessed_items]),
          db |-> db, raised |-> "StoreError"]
    ELSE LET left == unprocessed_of(unprocessed_items, attempts + 1, plan)
             done == SubSeq(unprocessed_items, 1, Len(unprocessed_items) - Len(left))
             calls1 == Append(calls, [table |-> t, items |-> unprocessed_items,
                                      unprocessed |-> left])
             db1 == apply_all(db, done)
         IN  IF left # <<>>
             THEN IF attempts + 1 > max_attempts
                  THEN [calls |-> calls1, db |-> db1, raised |-> "MaxAttemptsError"]
                  ELSE invoke_with_backoff(t, resubmission(unprocessed_items, left),
                                           attempts + 1, plan, calls1, db1)
             ELSE [calls |-> calls1, db |-> db1, raised |-> "none"]

\* Dyntastic.submit_batch_write (main.py:403-414)
submit_batch_write(t, batch, plan, db) ==
    IF batch = <<>>
    THEN [calls |-> <<>>, db |-> db, raised |-> "none"]
    ELSE invoke_with_backoff(t, batch, 0, plan, <<>>, db)

(***************************************************************************)
(* BatchWriter (batch.py:35-62).                                           *)
(***************************************************************************)
BwAbsent ==
    [made |-> FALSE, table |-> NoTable, batch_size |-> 0,
     batch |-> <<>>, batches_submitted |-> 0]

\* __init__ (batch.py:36-40)
BatchWriter_init(t, size) ==
    [made |-> TRUE, table |-> t, batch_size |-> size,
     batch |-> <<>>, batches_submitted |-> 0]

\* variant: __exit__ commits only when the body did not raise
BatchWriter_exit_commits_unless_raised(exc) == ~exc

\* __exit__ (batch.py:46-48) commits whatever the exit reason
BatchWriter_exit_commits(exc) == TRUE

\* variant: the flush test written as "past the batch size"
batch_full_past(b) == Len(b.batch) > b.batch_size

\* add (batch.py:58): `if len(self.batch) >= self.batch_size:`
batch_full(b) == Len(b.batch) >= b.batch_size

\* variant: the buffer is emptied and the counter advanced before the
\* submission is attempted
BatchWriter_commit_clears_first(b, plan, db) ==
    IF b.batch # <<>>
    THEN LET sub == submit_batch_write(b.table, b.batch, plan, db)
         IN  [b |-> [b EXCEPT !.batch = <<>>, !.batches_submitted = @ + 1],
              calls |-> sub.calls, db |-> sub.db, raised |-> sub.raised,
              submitted |-> TRUE]
    ELSE [b |-> b, calls |-> <<>>, db |-> db, raised |-> "none", submitted |-> FALSE]

\* _commit (batch.py:50-54): submit_batch_write first; `self.batch = []` and
\* `self.batches_submitted += 1` are reached only when it returned
BatchWriter_commit(b, plan, db) ==
    IF b.batch # <<>>
    THEN LET sub == submit_batch_write(b.table, b.batch, plan, db)
         IN  IF sub.raised = "none"
             THEN [b |-> [b EXCEPT !.batch = <<>>, !.batches_submitted = @ + 1],
                   calls |-> sub.calls, db |-> sub.db, raised |-> "none",
                   submitted |-> TRUE]
             ELSE [b |-> b, calls |-> sub.calls, db |-> sub.db, raised |-> sub.raised,
                   submitted |-> TRUE]
    ELSE [b |-> b, calls |-> <<>>, db |-> db, raised |-> "none", submitted |-> FALSE]

\* add (batch.py:56-59)
BatchWriter_add(b, item, plan, db) ==
    LET b1 == [b EXCEPT !.batch = Append(@, item)]
    IN  IF batch_full(b1)
        THEN BatchWriter_commit(b1, plan, db)
        ELSE [b |-> b1, calls |-> <<>>, db |-> db, raised |-> "none",
              submitted |-> FALSE]

\* __len__ (batch.py:61-62)
BatchWriter_len(b) == b.batches_submitted

(***************************************************************************)
(* Dispatch of a write (main.py:339-345, 388-397, 605-680).                *)
(***************************************************************************)
\* The class attribute _dyntastic_batch_writer: the ContextVar that
\* __pydantic_init_subclass__ stores there (main.py:748), or whatever was
\* assigned over it since.  No code calls set() on that ContextVar, so in every
\* flow its value is its default.
AttrContextVar == [kind |-> "ContextVar", id |-> NoWriter]
AttrBatchWriter(b) == [kind |-> "BatchWriter", id |-> b]
AttrNone == [kind |-> "None", id |-> NoWriter]

\* cls._dyntastic_batch_writer.get() (main.py:664): only a ContextVar has get()
batch_writer_var_get(attr) ==
    IF attr.kind = "ContextVar"
    THEN [raised |-> "none", value |-> attr.id]
    ELSE [raised |-> "AttributeError", value |-> NoWriter]

\* variant: the active writer kept in a module global that every flow shares
current_transaction_writer_shared(f) ==
    LET active == {transaction_writer_var[g] : g \in Flows} \ {NoWriter}
    IN  IF active = {} THEN NoWriter ELSE CHOOSE w \in active : \A v \in active : v <= w

\* current_transaction_writer() (transact.py:19-20) in flow f
current_transaction_writer(f) == transaction_writer_var[f]

\* _construct_batch_item (main.py:605-623): the request, or the ValueError for
\* arguments beyond the bare item/key
batch_item_kind(operation) ==
    IF operation = "delete_item" THEN "DeleteRequest" ELSE "PutRequest"

construct_batch_item_ok(operation, c) == operation \in WriteOps /\ c = "none"

\* _construct_transact_item (main.py:625-657): the key of the item built
transact_item_kind(operation) ==
    CASE operation = "delete_item" -> "Delete"
      [] operation = "put_item" -> "Put"
      [] operation = "update_item" -> "Update"
      [] OTHER -> "ConditionCheck"

\* variant: the flow's transaction writer is consulted first and takes the write
dyntastic_call_transaction_first(attr, transaction_writer, operation, c) ==
    IF transaction_writer # NoWriter THEN "transact"
    ELSE IF batch_writer_var_get(attr).raised # "none"
    THEN batch_writer_var_get(attr).raised
    ELSE IF batch_writer_var_get(attr).value # NoWriter
    THEN IF construct_batch_item_ok(operation, c) THEN "batch" ELSE "ValueError"
    ELSE "direct"

\* _dyntastic_call (main.py:659-680): where a write of `operation` with
\* condition c goes, given the class attribute and the flow's transaction writer
dyntastic_call(attr, transaction_writer, operation, c) ==
    LET got == batch_writer_var_get(attr)
        batch_writer == got.value
    IN  IF got.raised # "none" THEN got.raised
        ELSE IF batch_writer # NoWriter /\ transaction_writer # NoWriter
        THEN "ValueError"
        ELSE IF batch_writer = NoWriter /\ transaction_writer = NoWriter
        THEN "direct"
        ELSE IF batch_writer # NoWriter
        THEN IF construct_batch_item_ok(operation, c) THEN "batch" ELSE "ValueError"
        ELSE "transact"

\* What an operation did: the call (op, flow, and for a write its model type,
\* key and condition; for a scope exit whether the body raised), where
\* _dyntastic_call sent it, and the error it raised ("none": it returned); for
\* an update, its arguments (whether it has actions, require_condition,
\* refresh), the update_data it compiled (main.py:361), whether it warned
\* (main.py:372) and whether it read the item back (main.py:375).
Outcome(op, f, t, k, c, route, raised, exc) ==
    [op |-> op, flow |-> f, table |-> t, key |-> k, cond |-> c, route |-> route,
     raised |-> raised, exc |-> exc, has_actions |-> FALSE, actions |-> <<>>,
     require_condition |-> FALSE, refresh |-> FALSE, update_data |-> <<>>,
     warned |-> FALSE, read |-> FALSE, calls |-> <<>>, translated |-> <<>>,
     request |-> <<>>, data |-> <<>>, serialized |-> <<>>, attr |-> <<>>,
     loaded |-> FALSE, printed |-> <<>>,
     variables |-> [attributes |-> <<>>, values |-> <<>>],
     args |-> <<>>, requests |-> <<>>, pages |-> <<>>, yielded |-> <<>>]
Did(op, f, raised) == Outcome(op, f, NoTable, 0, "none", "none", raised, FALSE)
Exited(op, f, raised, exc) ==
    Outcome(op, f, NoTable, 0, "none", "none",
            IF raised # "none" THEN raised ELSE IF exc THEN "BodyError" ELSE "none", exc)
Wrote(op, f, t, k, c, route, raised) == Outcome(op, f, t, k, c, route, raised, FALSE)

Top(f) == stack[f][Len(stack[f])]
Pop(f) == [stack EXCEPT ![f] = SubSeq(@, 1, Len(@) - 1)]
Push(f, kind, id) == [stack EXCEPT ![f] = Append(@, [kind |-> kind, id |-> id])]
InScope(f, kind, id) == \E i \in 1..Len(stack[f]) : stack[f][i] = [kind |-> kind, id |-> id]
\* some flow is inside the scope of this writer
Active(kind, id) == \E f \in Flows : InScope(f, kind, id)

(***************************************************************************)
(* Init: nothing constructed, every model type freshly declared, the store *)
(* empty.                                                                  *)
(***************************************************************************)
Init ==
    /\ tw = [w \in TxWriters |-> TxAbsent]
    /\ transaction_writer_var = [f \in Flows |-> NoWriter]
    /\ bw = [b \in BatchWriters |-> BwAbsent]
    /\ batch_writer_attr = [t \in Tables |-> AttrContextVar]
    /\ stack = [f \in Flows |-> <<>>]
    /\ table_items = [t \in Tables |-> {}]
    /\ tx_calls = <<>>
    /\ bw_calls = <<>>
    /\ next_id = 1
    /\ result = Did("none", MainFlow, "none")
    /\ unrefreshed = {}

(***************************************************************************)
(* Transaction scope.                                                      *)
(***************************************************************************)
\* `with transaction(auto_commit=ac, commit_every=ce) as w:` in flow f:
\* __init__ (transact.py:50-59), then __enter__ (transact.py:61-63)
TxWith(f, w, ac, ce) ==
    /\ ~tw[w].made
    /\ \A v \in TxWriters : v < w => tw[v].made
    /\ IF ce <= TRANSACTION_MAX_ITEMS
       THEN /\ tw' = [tw EXCEPT ![w] =
                         [TransactionWriter_init(ac, ce) EXCEPT
                             !.token = [held |-> TRUE, old |-> transaction_writer_var[f]]]]
            /\ transaction_writer_var' = [transaction_writer_var EXCEPT ![f] = w]
            /\ stack' = Push(f, "tx", w)
            /\ result' = Did("tx_with", f, "none")
       ELSE /\ result' = Did("tx_with", f, "AssertionError")
            /\ UNCHANGED <<tw, transaction_writer_var, stack>>
    /\ UNCHANGED <<bw, batch_writer_attr, table_items, tx_calls, bw_calls, next_id,
                   unrefreshed>>

\* variant: the variable set back to its default, as batch.py:47 does
ContextVar_reset_to_default(var, f, token) == [var EXCEPT ![f] = NoWriter]

\* _transaction_writer_var.reset(token) (transact.py:67): the flow's value is
\* again the one the token recorded when set() was called
ContextVar_reset(var, f, token) == [var EXCEPT ![f] = token.old]

\* __exit__ (transact.py:65-71); exc: the body left the scope by an exception
TxExit(f, exc) ==
    /\ stack[f] # <<>> /\ Top(f).kind = "tx"
    /\ LET w == Top(f).id
           w1 == [tw[w] EXCEPT !.token = NoToken]
           c == IF TransactionWriter_exit_commits(exc)
                THEN TransactionWriter_commit(w1, table_items)
                ELSE [w |-> w1, calls |-> <<>>, db |-> table_items, raised |-> "none"]
       IN  /\ tw[w].token.held
           /\ transaction_writer_var' = ContextVar_reset(transaction_writer_var, f,
                                                         tw[w].token)
           /\ tw' = [tw EXCEPT ![w] = c.w]
           /\ tx_calls' = tx_calls \o c.calls
           /\ table_items' = c.db
           /\ result' = Exited("tx_exit", f, c.raised, exc)
    /\ stack' = Pop(f)
    /\ UNCHANGED <<bw, batch_writer_attr, bw_calls, next_id, unrefreshed>>

\* a manual w.commit() (transact.py:73-79) from inside w's scope
TxCommit(f, w) ==
    /\ InScope(f, "tx", w)
    /\ LET c == TransactionWriter_commit(tw[w], table_items)
       IN  /\ tw' = [tw EXCEPT ![w] = c.w]
           /\ tx_calls' = tx_calls \o c.calls
           /\ table_items' = c.db
           /\ result' = Did("tx_commit", f, c.raised)
    /\ UNCHANGED <<transaction_writer_var, bw, batch_writer_attr, stack, bw_calls,
                   next_id, unrefreshed>>

(***************************************************************************)
(* Batch-writer scope.                                                     *)
(***************************************************************************)
\* `with t.batch_writer(batch_size=size) as b:` in flow f: batch_writer
\* (main.py:399-401), __init__ (batch.py:36-40), then __enter__ (batch.py:42-44)
BwWith(f, b, t, size) ==
    /\ ~bw[b].made
    /\ \A v \in BatchWriters : v < b => bw[v].made
    /\ bw' = [bw EXCEPT ![b] = BatchWriter_init(t, size)]
    /\ batch_writer_attr' = [batch_writer_attr EXCEPT ![t] = AttrBatchWriter(b)]
    /\ stack' = Push(f, "bw", b)
    /\ result' = Did("bw_with", f, "none")
    /\ UNCHANGED <<tw, transaction_writer_var, table_items, tx_calls, bw_calls, next_id,
                   unrefreshed>>

\* __exit__ (batch.py:46-48); exc: the body left the scope by an exception
BwExit(f, exc, plan) ==
    /\ stack[f] # <<>> /\ Top(f).kind = "bw"
    /\ LET b == Top(f).id
           c == IF BatchWriter_exit_commits(exc)
                THEN BatchWriter_commit(bw[b], plan, table_items)
                ELSE [b |-> bw[b], calls |-> <<>>, db |-> table_items, raised |-> "none",
                      submitted |-> FALSE]
       IN  /\ batch_writer_attr' = [batch_writer_attr EXCEPT ![bw[b].table] = AttrNone]
           /\ bw' = [bw EXCEPT ![b] = c.b]
           /\ bw_calls' = bw_calls \o c.calls
           /\ table_items' = c.db
           /\ result' = Exited("bw_exit", f, c.raised, exc)
    /\ stack' = Pop(f)
    /\ UNCHANGED <<tw, transaction_writer_var, tx_calls, next_id, unrefreshed>>

\* writer.add(request) (batch.py:56-59) called on the writer from inside its scope
BwAdd(f, b, operation, k, plan) ==
    /\ InScope(f, "bw", b)
    /\ LET item == [id |-> next_id, table |-> bw[b].table,
                    op |-> batch_item_kind(operation), key |-> k, cond |-> "none"]
           c == BatchWriter_add(bw[b], item, plan, table_items)
       IN  /\ bw' = [bw EXCEPT ![b] = c.b]
           /\ bw_calls' = bw_calls \o c.calls
           /\ table_items' = c.db
           /\ result' = Wrote("bw_add", f, bw[b].table, k, "none", "batch", c.raised)
    /\ next_id' = next_id + 1
    /\ UNCHANGED <<tw, transaction_writer_var, batch_writer_attr, stack, tx_calls,
                   unrefreshed>>

(***************************************************************************)
(* Writes issued on a model instance.                                      *)
(***************************************************************************)
\* save(condition=c) / delete(condition=c) (main.py:339-345) of key k of model
\* type t in flow f, through _dyntastic_call (main.py:659-680)
Write(f, t, operation, k, c, plan) ==
    LET route == dyntastic_call(batch_writer_attr[t], current_transaction_writer(f),
                                operation, c)
    IN
    /\ next_id' = next_id + 1
    /\ UNCHANGED <<transaction_writer_var, batch_writer_attr, stack, unrefreshed>>
    /\ CASE route = "direct" ->
              \* method(**filtered_kwargs): the store applies it or reports the
              \* failed condition
              /\ IF condition_holds(table_items, t, k, c)
                 THEN /\ table_items' = apply_write(table_items, t,
                                                    transact_item_kind(operation), k)
                      /\ result' = Wrote(operation, f, t, k, c, route, "none")
                 ELSE /\ table_items' = table_items
                      /\ result' = Wrote(operation, f, t, k, c, route,
                                         "ConditionalCheckFailed")
              /\ UNCHANGED <<tw, bw, tx_calls, bw_calls>>
         [] route = "batch" ->
              LET b == batch_writer_var_get(batch_writer_attr[t]).value
                  item == [id |-> next_id, table |-> t, op |-> batch_item_kind(operation),
                           key |-> k, cond |-> "none"]
                  r == BatchWriter_add(bw[b], item, plan, table_items)
              IN  /\ bw' = [bw EXCEPT ![b] = r.b]
                  /\ bw_calls' = bw_calls \o r.calls
                  /\ table_items' = r.db
                  /\ result' = Wrote(operation, f, t, k, c, route, r.raised)
                  /\ UNCHANGED <<tw, tx_calls>>
         [] route = "transact" ->
              LET w == current_transaction_writer(f)
                  item == [id |-> next_id, table |-> t, op |-> transact_item_kind(operation),
                           key |-> k, cond |-> c]
                  r == TransactionWriter_add(tw[w], t, item, table_items)
              IN  /\ tw' = [tw EXCEPT ![w] = r.w]
                  /\ tx_calls' = tx_calls \o r.calls
                  /\ table_items' = r.db
                  /\ result' = Wrote(operation, f, t, k, c, route, r.raised)
                  /\ UNCHANGED <<bw, bw_calls>>
         [] OTHER ->
              \* the AttributeError of line 664 or the ValueError of lines 668, 619
              /\ result' = Wrote(operation, f, t, k, c, "none", route)
              /\ UNCHANGED <<tw, bw, table_items, tx_calls, bw_calls>>

\* transaction_condition(c) (main.py:388-397)
TransactionCondition(f, t, k, c) ==
    /\ next_id' = next_id + 1
    /\ UNCHANGED <<transaction_writer_var, batch_writer_attr, stack, bw, bw_calls,
                   unrefreshed>>
    /\ IF current_transaction_writer(f) = NoWriter
       THEN /\ result' = Wrote("transaction_condition", f, t, k, c, "none", "Exception")
            /\ UNCHANGED <<tw, table_items, tx_calls>>
       ELSE LET w == current_transaction_writer(f)
                item == [id |-> next_id, table |-> t,
                         op |-> transact_item_kind("transaction_condition"),
                         key |-> k, cond |-> c]
                r == TransactionWriter_add(tw[w], t, item, table_items)
            IN  /\ tw' = [tw EXCEPT ![w] = r.w]
                /\ tx_calls' = tx_calls \o r.calls
                /\ table_items' = r.db
                /\ result' = Wrote("transaction_condition", f, t, k, c, "transact", r.raised)

(***************************************************************************)
(* The update-expression compiler (attr.py:70-233).  An expression text is *)
(* the sequence of the pieces the code's f-strings and joins put together; *)
(* a dict is a function from its keys.                                     *)
(***************************************************************************)
\* the things add_variable is handed: an Attr (its name, a str given as its
\* pieces, "." being the piece that separates two segments), a literal value,
\* an _UpdateFn (if_not_exists, list_append) with its args, an _Operator
\* (+, -) with its two args
Attr(name) == [kind |-> "Attr", name |-> name, fn |-> "", args |-> <<>>, value |-> ""]
Value(v) == [kind |-> "Value", name |-> <<>>, fn |-> "", args |-> <<>>, value |-> v]
UpdateFn(fn_name, args) ==
    [kind |-> "UpdateFn", name |-> <<>>, fn |-> fn_name, args |-> args, value |-> ""]
Operator(operator, arg1, arg2) ==
    [kind |-> "Operator", name |-> <<>>, fn |-> operator, args |-> <<arg1, arg2>>,
     value |-> ""]

\* the update actions (attr.py:134-209); index -1 is None
ActionSet(path, value) == [update_action |-> "SET", path |-> path, value |-> value, index |-> -1]
ActionRemove(path, index) ==
    [update_action |-> "REMOVE", path |-> path, value |-> Value(""), index |-> index]
ActionAdd(path, value) == [update_action |-> "ADD", path |-> path, value |-> value, index |-> -1]
ActionDelete(path, value) ==
    [update_action |-> "DELETE", path |-> path, value |-> value, index |-> -1]

\* _Variables.__init__ (attr.py:71-73)
Variables_init == [attributes |-> <<>>, values |-> <<>>]

\* sep.join(parts), each part a text
RECURSIVE join(_, _)
join(sep, parts) ==
    IF parts = <<>> THEN <<>>
    ELSE IF Len(parts) = 1 THEN parts[1]
    ELSE parts[1] \o <<sep>> \o join(sep, Tail(parts))

\* the str that a sequence of pieces spells
RECURSIVE str(_)
str(pieces) == IF pieces = <<>> THEN "" ELSE pieces[1] \o str(Tail(pieces))

\* variant: the whole name bound as one segment
split_whole(name, sep) == <<str(name)>>

\* name.split(sep) (attr.py:84): the strs between the separators, in order
RECURSIVE split(_, _)
split(name, sep) ==
    IF \A i \in 1..Len(name) : name[i] # sep THEN <<str(name)>>
    ELSE LET i == CHOOSE j \in 1..Len(name) :
                      name[j] = sep /\ \A h \in 1..(j - 1) : name[h] # sep
         IN  <<str(SubSeq(name, 1, i - 1))>> \o split(SubSeq(name, i + 1, Len(name)), sep)

\* variant: the key is the position of the entry within `variables`
add_segments_enumerate(data, key_prefix, variables) ==
    IF variables = <<>> THEN [data |-> data, segments |-> <<>>]
    ELSE LET keys == [i \in 1..Len(variables) |-> key_prefix \o ToString(i - 1)]
             bound(k) == {i \in 1..Len(variables) : keys[i] = k}
         IN  [data |-> [k \in DOMAIN data \cup {keys[i] : i \in 1..Len(variables)} |->
                           IF bound(k) # {} THEN variables[CHOOSE i \in bound(k) : TRUE]
                           ELSE data[k]],
              segments |-> [i \in 1..Len(variables) |-> <<keys[i]>>]]

\* variant: a variable already held by the map keeps the key it was given
RECURSIVE add_segments_cached(_, _, _)
add_segments_cached(data, key_prefix, variables) ==
    IF variables = <<>> THEN [data |-> data, segments |-> <<>>]
    ELSE LET held == {k \in DOMAIN data : data[k] = variables[1]}
             key == IF held # {} THEN CHOOSE k \in held : TRUE
                    ELSE key_prefix \o ToString(Cardinality(DOMAIN data))
             rest == add_segments_cached((key :> variables[1]) @@ data, key_prefix,
                                         Tail(variables))
         IN  [data |-> rest.data, segments |-> <<<<key>>>> \o rest.segments]

\* attr.py:90-96: one key per entry of `variables`, each `prefix + len(data)`
RECURSIVE add_segments(_, _, _)
add_segments(data, key_prefix, variables) ==
    IF variables = <<>> THEN [data |-> data, segments |-> <<>>]
    ELSE LET key == key_prefix \o ToString(Cardinality(DOMAIN data))
             rest == add_segments((key :> variables[1]) @@ data, key_prefix,
                                  Tail(variables))
         IN  [data |-> rest.data, segments |-> <<<<key>>>> \o rest.segments]

\* _Variables.add_variable (attr.py:75-96), _UpdateFn.build (attr.py:147-150)
\* and _Operator.build (attr.py:168-171): the allocator afterwards and the text
RECURSIVE add_variable(_, _), add_variables(_, _)
add_variable(variables, variable) ==
    CASE variable.kind = "UpdateFn" ->
            LET built == add_variables(variables, variable.args)
            IN  [variables |-> built.variables,
                 text |-> <<variable.fn, "(">> \o join(", ", built.texts) \o <<")">>]
      [] variable.kind = "Operator" ->
            LET built == add_variables(variables, variable.args)
            IN  [variables |-> built.variables,
                 text |-> built.texts[1] \o <<" ", variable.fn, " ">> \o built.texts[2]]
      [] variable.kind = "Attr" ->
            LET added == add_segments(variables.attributes, "#", split(variable.name, "."))
            IN  [variables |-> [variables EXCEPT !.attributes = added.data],
                 text |-> join(".", added.segments)]
      [] OTHER ->
            LET added == add_segments(variables.values, ":", <<variable.value>>)
            IN  [variables |-> [variables EXCEPT !.values = added.data],
                 text |-> join(".", added.segments)]

\* map(variables.add_variable, args), consumed left to right
add_variables(variables, args) ==
    IF args = <<>> THEN [variables |-> variables, texts |-> <<>>]
    ELSE LET first == add_variable(variables, args[1])
             rest == add_variables(first.variables, Tail(args))
         IN  [variables |-> rest.variables, texts |-> <<first.text>> \o rest.texts]

\* variant: the value of an action allocated before its target path
build_value_first(action, variables) ==
    IF action.update_action = "REMOVE"
    THEN LET path_var == add_variable(variables, action.path)
         IN  [variables |-> path_var.variables,
              text |-> IF action.index = -1 THEN path_var.text
                       ELSE path_var.text \o <<"[", ToString(action.index), "]">>]
    ELSE LET value_var == add_variable(variables, action.value)
             path_var == add_variable(value_var.variables, action.path)
         IN  [variables |-> path_var.variables,
              text |-> path_var.text
                       \o <<IF action.update_action = "SET" THEN " = " ELSE " ">>
                       \o value_var.text]

\* build of an action: _UpdatePathValue.build with the format of _ActionSet or
\* of _ActionAdd/_ActionDelete (attr.py:125-138), _ActionRemove.build
\* (attr.py:195-201)
build(action, variables) ==
    LET path_var == add_variable(variables, action.path)
    IN  IF action.update_action = "REMOVE"
        THEN [variables |-> path_var.variables,
              text |-> IF action.index = -1 THEN path_var.text
                       ELSE path_var.text \o <<"[", ToString(action.index), "]">>]
        ELSE LET value_var == add_variable(path_var.variables, action.value)
             IN  [variables |-> value_var.variables,
                  text |-> path_var.text
                           \o <<IF action.update_action = "SET" THEN " = " ELSE " ">>
                           \o value_var.text]

\* variant: the verb groups laid out in the fixed order SET, REMOVE, ADD, DELETE
verb_order_fixed(actions) ==
    LET fixed == <<"SET", "REMOVE", "ADD", "DELETE">>
    IN  SelectSeq(fixed, LAMBDA verb : \E i \in 1..Len(actions) :
                                          actions[i].update_action = verb)

\* attr.py:214-220: the keys of serialized_actions in the order the dict got
\* them, the order in which each verb first occurs among the actions
verb_order(actions) ==
    LET first(i) == \A j \in 1..(i - 1) : actions[j].update_action # actions[i].update_action
        RECURSIVE from(_)
        from(i) == IF i > Len(actions) THEN <<>>
                   ELSE IF first(i) THEN <<actions[i].update_action>> \o from(i + 1)
                   ELSE from(i + 1)
    IN  from(1)

\* attr.py:216-217: every action built in the order supplied, on one allocator
RECURSIVE build_all(_, _)
build_all(actions, variables) ==
    IF actions = <<>> THEN [variables |-> variables, texts |-> <<>>]
    ELSE LET first == build(actions[1], variables)
             rest == build_all(Tail(actions), first.variables)
         IN  [variables |-> rest.variables, texts |-> <<first.text>> \o rest.texts]

\* translate_updates after its loop over the actions (attr.py:219-233)
translate_built(actions, built) ==
    LET expressions(verb) ==
            LET RECURSIVE of(_)
                of(i) == IF i > Len(actions) THEN <<>>
                         ELSE IF actions[i].update_action = verb
                         THEN <<built.texts[i]>> \o of(i + 1)
                         ELSE of(i + 1)
            IN  of(1)
        verbs == verb_order(actions)
        action_expressions ==
            [n \in 1..Len(verbs) |-> <<verbs[n], " ">> \o join(", ", expressions(verbs[n]))]
        update_data ==
            ("UpdateExpression" :> join(" ", action_expressions))
                @@ ("ExpressionAttributeNames" :> built.variables.attributes)
    IN  IF built.variables.values # <<>>
        THEN ("ExpressionAttributeValues" :> built.variables.values) @@ update_data
        ELSE update_data

\* translate_updates (attr.py:212-233): a new _Variables for the call
translate_updates(actions) == translate_built(actions, build_all(actions, Variables_init))

\* the null literal
None == "None"

\* serialize of a dict (attr.py:20-24): the entries whose value is None are
\* dropped; the values of the model are scalars, which serialize keeps
serialize_dict(data) == [key \in {k \in DOMAIN data : data[k] # None} |-> data[key]]

\* attr.serialize(update_data) (main.py:361): the text is a str, the two maps
\* are dicts
serialize_update_data(update_data) ==
    [key \in DOMAIN update_data |->
        IF key = "UpdateExpression" THEN update_data[key]
        ELSE serialize_dict(update_data[key])]

(***************************************************************************)
(* serialize (attr.py:17-33) over the literal shapes it tells apart.       *)
(***************************************************************************)
\* a value: its type, and its content as `value` (a scalar) or `items`: the
\* entries of a dict, BaseModel or dataclass with their keys, the elements of
\* a list, tuple or set with no key
Shape(kind, value, items) == [kind |-> kind, value |-> value, items |-> items]
Entry(key, value) == [key |-> key, value |-> value]
Element(value) == Entry("", value)
Scalar(v) == Shape("scalar", v, <<>>)
NoneValue == Shape("None", "", <<>>)
Datetime(v) == Shape("datetime", v, <<>>)
Dict(items) == Shape("dict", "", items)
List(items) == Shape("list", "", items)
Tuple(items) == Shape("tuple", "", items)
Set(items) == Shape("set", "", items)
BaseModel(items) == Shape("BaseModel", "", items)
Dataclass(items) == Shape("dataclass", "", items)

\* data.dict() of a BaseModel: the fields by name, nested models as dicts
RECURSIVE BaseModel_dict(_)
BaseModel_dict(data) ==
    LET each == [i \in 1..Len(data.items) |->
                    Entry(data.items[i].key, BaseModel_dict(data.items[i].value))]
    IN  CASE data.kind \in {"BaseModel", "dict"} -> Dict(each)
          [] data.kind \in {"list", "tuple"} -> Shape(data.kind, "", each)
          [] OTHER -> data

\* json.loads(json.dumps(data, default=pydantic_encoder)) (attr.py:33): dicts,
\* models and dataclasses come back as dicts with every entry kept, null ones
\* included; lists, tuples and sets as lists; a datetime as its ISO text
RECURSIVE to_jsonable(_)
to_jsonable(data) ==
    LET each == [i \in 1..Len(data.items) |->
                    Entry(data.items[i].key, to_jsonable(data.items[i].value))]
    IN  CASE data.kind \in {"dict", "BaseModel", "dataclass"} -> Dict(each)
          [] data.kind \in {"list", "tuple", "set"} -> List(each)
          [] data.kind = "datetime" -> Scalar("iso " \o data.value)
          [] OTHER -> data

\* serialize (attr.py:17-33)
RECURSIVE serialize(_)
serialize(data) ==
    LET each(items) == [i \in 1..Len(items) |->
                           Entry(items[i].key, serialize(items[i].value))]
    IN  CASE data.kind = "BaseModel" -> serialize(BaseModel_dict(data))
          [] data.kind = "dict" ->
                Dict(each(SelectSeq(data.items, LAMBDA e : e.value.kind # "None")))
          [] data.kind \in {"list", "tuple"} -> List(each(data.items))
          [] data.kind = "set" -> Set(each(data.items))
          [] data.kind \in {"scalar", "None"} -> data
          [] OTHER -> to_jsonable(data)

\* the values handed to serialize: scalars, None and a datetime, and around a
\* value of the depth below a dict (alone and next to a None entry), a list, a tuple, a
\* model (of fields that hold no dataclass) and a dataclass; a set of a scalar
Atoms == {Scalar("x"), NoneValue, Datetime("d")}
RECURSIVE holds_dataclass(_)
holds_dataclass(data) ==
    \/ data.kind = "dataclass"
    \/ \E i \in 1..Len(data.items) : holds_dataclass(data.items[i].value)
RECURSIVE Shapes(_)
Shapes(depth) ==
    IF depth = 0 THEN Atoms
    ELSE LET below == Shapes(depth - 1)
         IN  below \cup {Set(<<Element(Scalar("x"))>>)}
                 \cup {Dict(<<Entry("a", v)>>) : v \in below}
                 \cup {Dict(<<Entry("a", v), Entry("b", NoneValue)>>) : v \in below}
                 \cup {List(<<Element(v)>>) : v \in below}
                 \cup {Tuple(<<Element(v)>>) : v \in below}
                 \cup {BaseModel(<<Entry("a", v)>>) :
                           v \in {x \in below : ~holds_dataclass(x)}}
                 \cup {Dataclass(<<Entry("a", v)>>) : v \in below}
SerializeInputs == Shapes(MaxDepth)

\* attr.serialize(data)
Serialize(f, data) ==
    /\ result' = [Did("serialize", f, "none") EXCEPT
                      !.data = data, !.serialized = serialize(data)]
    /\ UNCHANGED <<tw, transaction_writer_var, bw, batch_writer_attr, stack, table_items,
                   tx_calls, bw_calls, next_id, unrefreshed>>

(***************************************************************************)
(* SpecSerialize: serialize applied to every value of SerializeInputs.     *)
(***************************************************************************)
NextSerialize == \E data \in SerializeInputs : Serialize(MainFlow, data)

SpecSerialize == Init /\ [][NextSerialize]_vars

(***************************************************************************)
(* The keyword arguments of a store call and of a transaction item.        *)
(***************************************************************************)
\* the hash key attribute of the model types (test_transact_write.py:11-13)
hash_key_name == "hash_key"

\* variant: the builder numbers its placeholders #0.. and :0..
build_expression_plain(c) ==
    IF c = "eq"
    THEN [condition_expression |-> <<"#0", " = ", ":0">>,
          attribute_name_placeholders |-> ("#0" :> hash_key_name),
          attribute_value_placeholders |-> (":0" :> eq_value)]
    ELSE [condition_expression |->
              <<IF c = "exists" THEN "attribute_exists(" ELSE "attribute_not_exists(",
                "#0", ")">>,
          attribute_name_placeholders |-> ("#0" :> hash_key_name),
          attribute_value_placeholders |-> <<>>]
\* a condition as the boto3 builder compiles it (main.py:633-635): placeholders
\* #n0.. for names and :v0.. for values
build_expression(c) ==
    IF c = "eq"
    THEN [condition_expression |-> <<"#n0", " = ", ":v0">>,
          attribute_name_placeholders |-> ("#n0" :> hash_key_name),
          attribute_value_placeholders |-> (":v0" :> eq_value)]
    ELSE [condition_expression |->
              <<IF c = "exists" THEN "attribute_exists(" ELSE "attribute_not_exists(",
                "#n0", ")">>,
          attribute_name_placeholders |-> ("#n0" :> hash_key_name),
          attribute_value_placeholders |-> <<>>]
\* serialize_condition (transact.py:31-46): the value map only when the
\* expression has value placeholders
serialize_condition(c) ==
    LET expression == build_expression(c)
        serialized ==
            ("ConditionExpression" :> expression.condition_expression)
                @@ ("ExpressionAttributeNames" :> expression.attribute_name_placeholders)
    IN  IF expression.attribute_value_placeholders # <<>>
        THEN ("ExpressionAttributeValues" :> expression.attribute_value_placeholders)
                 @@ serialized
        ELSE serialized

\* serialize_data (transact.py:27-28): every value of the dict in the store's
\* typed form, as the TypeSerializer gives it
serialize_data(item) ==
    [key \in DOMAIN item |->
        IF item[key] = None THEN <<"NULL", TRUE>> ELSE <<"TYPED", item[key]>>]

\* main.py:661: the keyword arguments that are not None; the condition object
\* is handed to the store client as it is
filtered_kwargs(k, c, update_data) ==
    LET key == ("Key" :> (hash_key_name :> ToString(k)))
        kwargs == IF update_data = <<>> THEN key ELSE update_data @@ key
    IN  IF c = "none" THEN kwargs ELSE ("ConditionExpression" :> c) @@ kwargs

\* main.py:670-671: method(**filtered_kwargs)
direct_request(operation, k, c, update_data) == filtered_kwargs(k, c, update_data)

\* _construct_transact_item (main.py:625-657): the kwargs of the item; the
\* names and values of the condition are merged into those of the update
construct_transact_item(operation, t, k, c, update_data) ==
    LET kwargs == ("TableName" :> t) @@ filtered_kwargs(k, c, update_data)
        has(key) == key \in DOMAIN kwargs
        typed(args) ==
            [key \in DOMAIN args |->
                IF key \in {"Key", "Item", "ExpressionAttributeValues"}
                THEN serialize_data(args[key]) ELSE args[key]]
    IN  IF c = "none" THEN typed(kwargs)
        ELSE LET condition_data == serialize_condition(c)
                 names == condition_data["ExpressionAttributeNames"]
                              @@ (IF has("ExpressionAttributeNames")
                                  THEN kwargs["ExpressionAttributeNames"] ELSE <<>>)
                 merged == ("ConditionExpression" :> condition_data["ConditionExpression"])
                               @@ ("ExpressionAttributeNames" :> names) @@ kwargs
             IN  IF "ExpressionAttributeValues" \in DOMAIN condition_data
                 THEN typed(("ExpressionAttributeValues" :>
                                (condition_data["ExpressionAttributeValues"]
                                     @@ (IF has("ExpressionAttributeValues")
                                         THEN kwargs["ExpressionAttributeValues"]
                                         ELSE <<>>)))
                                @@ merged)
                 ELSE typed(merged)

(***************************************************************************)
(* update() and the unrefreshed state of an instance (main.py:348-386,     *)
(* 682-732).  One instance is followed per model type and key.             *)
(***************************************************************************)
\* the arguments of update(): the actions, the condition, require_condition
\* and refresh (main.py:348-354)
U(actions, c, require_condition, refresh) ==
    [actions |-> actions, cond |-> c, require_condition |-> require_condition,
     refresh |-> refresh, calls |-> <<>>]
\* A.data.set("bar") (test_transact_write.py:199)
SetData == ActionSet(Attr(<<"data">>), Value("bar"))
UpdateInputs ==
    {U(<<SetData>>, c, rc, r) : c \in {"none", "exists"}, rc \in BOOLEAN, r \in BOOLEAN}
        \cup {U(<<>>, "none", FALSE, TRUE)}
\* the saves and deletes issued next to the updates
UpdateWrites ==
    {W("Table", "put_item", 1, "none"), W("Table", "put_item", 1, "not_exists"),
     W("Table", "delete_item", 1, "exists")}
UpdateCommitEveryInputs == {1, 2}

\* the actions handed to update() in SpecCompile: every verb, a nested path, an
\* operator, an index (test_update_expressions.py:40-285)
CompileActions ==
    {ActionSet(Attr(<<"a">>), Value("1")),
     ActionSet(Attr(<<"b", ".", "c">>), Operator("+", Attr(<<"b", ".", "c">>), Value("2"))),
     ActionRemove(Attr(<<"a">>), -1),
     ActionRemove(Attr(<<"l">>), 0),
     ActionAdd(Attr(<<"n">>), Value("5")),
     ActionDelete(Attr(<<"s">>), Value("x"))}
ActionLists == UNION {[1..n -> CompileActions] : n \in 1..MaxActions}

\* variant: the failed condition is raised whatever require_condition says
update_swallows_never(require_condition) == FALSE

\* main.py:378-380: `except self.ConditionException(): if require_condition: raise`
update_swallows(require_condition) == ~require_condition

\* variant: the refresh is attempted inside a transaction too
refresh_allowed_always(transaction_writer) == TRUE

\* main.py:371: refresh only when current_transaction_writer() is None
refresh_allowed(transaction_writer) == transaction_writer = NoWriter

\* refresh (main.py:382-386): the flag is cleared, then get() reads the item
\* and raises DoesNotExist when the store does not hold it (main.py:159-166)
Dyntastic_refresh(un, t, k, db) ==
    [unrefreshed |-> un \ {<<t, k>>},
     raised |-> IF k \in db[t] THEN "none" ELSE "DoesNotExist",
     \* main.py:386: the fields are taken from the item that get() returned
     loaded |-> k \in db[t]]

\* __getattribute__ (main.py:701-722) of a public attribute: the ValueError
\* "Dyntastic instance was not refreshed after update"
getattribute_raises(un, t, k) == <<t, k>> \in un

\* variant: the instance is marked before the call is made
update_marks_before_call(un, t, k) == un \cup {<<t, k>>}
\* main.py:362-369: _dyntastic_call raised, so the assignment of line 369 that
\* follows it did not run
update_call_raised(un, t, k) == un

\* main.py:369-375, after _dyntastic_call returned: the flag is set, then the
\* refresh is made, or skipped with a warning inside a transaction
after_update_call(un, t, k, refresh, transaction_writer, db) ==
    LET set == un \cup {<<t, k>>}
    IN  IF ~refresh
        THEN [unrefreshed |-> set, raised |-> "none", warned |-> FALSE, read |-> FALSE,
              loaded |-> FALSE]
        ELSE IF ~refresh_allowed(transaction_writer)
        THEN [unrefreshed |-> set, raised |-> "none", warned |-> TRUE, read |-> FALSE,
              loaded |-> FALSE]
        ELSE [unrefreshed |-> Dyntastic_refresh(set, t, k, db).unrefreshed,
              raised |-> Dyntastic_refresh(set, t, k, db).raised,
              warned |-> FALSE, read |-> TRUE,
              loaded |-> Dyntastic_refresh(set, t, k, db).loaded]

\* item.update(*actions, condition=c, require_condition=..., refresh=...)
\* (main.py:348-380) on the instance of key k of model type t, in flow f
Update(f, t, k, u) ==
    LET transaction_writer == current_transaction_writer(f)
        route == dyntastic_call(batch_writer_attr[t], transaction_writer,
                                "update_item", u.cond)
        Raised(compiled, where, e) ==
            [Wrote("update_item", f, t, k, u.cond, where, e) EXCEPT
                !.has_actions = u.actions # <<>>, !.actions = u.actions,
                !.require_condition = u.require_condition, !.refresh = u.refresh,
                !.translated = compiled.translated,
                !.update_data = compiled.update_data, !.calls = u.calls,
                !.request = IF where = "direct"
                            THEN direct_request("update_item", k, u.cond,
                                                compiled.update_data)
                            ELSE IF where = "transact"
                            THEN construct_transact_item("update_item", t, k, u.cond,
                                                         compiled.update_data)
                            ELSE <<>>]
        Returned(compiled, where, a) ==
            [Raised(compiled, where, a.raised) EXCEPT
                !.warned = a.warned, !.read = a.read, !.loaded = a.loaded]
    IN
    \* main.py:361: translate_updates(*actions), then attr.serialize of its result
    \E translated \in
          {IF u.actions = <<>> \/ getattribute_raises(unrefreshed, t, k) THEN <<>>
           ELSE translate_updates(u.actions)} :
    \E compiled \in
          {[translated |-> translated,
            update_data |-> IF translated = <<>> THEN <<>>
                            ELSE serialize_update_data(translated)]} :
    /\ next_id' = next_id + 1
    /\ UNCHANGED <<transaction_writer_var, batch_writer_attr, stack, bw, bw_calls>>
    /\ IF getattribute_raises(unrefreshed, t, k)
       THEN \* `item.update` itself is a public attribute
            /\ result' = Raised(compiled, "none", "NotRefreshedError")
            /\ UNCHANGED <<tw, table_items, tx_calls, unrefreshed>>
       ELSE IF u.actions = <<>>
       THEN /\ result' = Raised(compiled, "none", "ValueError")
            /\ UNCHANGED <<tw, table_items, tx_calls, unrefreshed>>
       ELSE CASE route = "direct" ->
                 IF condition_holds(table_items, t, k, u.cond)
                 THEN LET db == apply_write(table_items, t,
                                            transact_item_kind("update_item"), k)
                          a == after_update_call(unrefreshed, t, k, u.refresh,
                                                 transaction_writer, db)
                      IN  /\ table_items' = db
                          /\ unrefreshed' = a.unrefreshed
                          /\ result' = Returned(compiled, route, a)
                          /\ UNCHANGED <<tw, tx_calls>>
                 ELSE \* the store raises ConditionalCheckFailedException
                      /\ result' = Raised(compiled, route,
                                          IF update_swallows(u.require_condition)
                                          THEN "none" ELSE "ConditionalCheckFailed")
                      /\ unrefreshed' = update_call_raised(unrefreshed, t, k)
                      /\ UNCHANGED <<tw, table_items, tx_calls>>
              [] route = "transact" ->
                 LET w == transaction_writer
                     item == [id |-> next_id, table |-> t,
                              op |-> transact_item_kind("update_item"),
                              key |-> k, cond |-> u.cond]
                     r == TransactionWriter_add(tw[w], t, item, table_items)
                     a == after_update_call(unrefreshed, t, k, u.refresh,
                                            transaction_writer, r.db)
                 IN  /\ tw' = [tw EXCEPT ![w] = r.w]
                     /\ tx_calls' = tx_calls \o r.calls
                     /\ table_items' = r.db
                     /\ IF r.raised = "none"
                        THEN /\ unrefreshed' = a.unrefreshed
                             /\ result' = Returned(compiled, route, a)
                        ELSE /\ unrefreshed' = update_call_raised(unrefreshed, t, k)
                             /\ result' = Raised(compiled, route, r.raised)
              [] OTHER ->
                 \* the AttributeError of line 664 or the ValueError of lines 668, 616
                 /\ result' = Raised(compiled, "none", route)
                 /\ UNCHANGED <<tw, table_items, tx_calls, unrefreshed>>

\* reading a field of the instance (main.py:701-725)
ReadField(f, t, k) ==
    /\ result' = Wrote("read_field", f, t, k, "none", "none",
                       IF getattribute_raises(unrefreshed, t, k)
                       THEN "NotRefreshedError" ELSE "none")
    /\ UNCHANGED <<tw, transaction_writer_var, bw, batch_writer_attr, stack, table_items,
                   tx_calls, bw_calls, next_id, unrefreshed>>

\* the attribute names looked up on the instance, each a str given as its
\* pieces: a field, the write methods, the names __getattribute__ lets through
\* and a private name
AttributeNames ==
    {<<"my_str">>, <<"save">>, <<"update">>, <<"delete">>, <<"refresh">>,
     <<"ignore_unrefreshed">>, <<"ConditionException">>, <<"_", "dyntastic_key_dict">>}

\* __getattribute__ (main.py:701-722) of an attribute the instance has: what it
\* raises
Dyntastic_getattribute(un, t, k, attr) ==
    IF attr[1] = "_" \/ str(attr) \in {"refresh", "ignore_unrefreshed",
                                       "ConditionException", "model_post_init"}
    THEN "none"
    ELSE IF getattribute_raises(un, t, k) THEN "NotRefreshedError"
    ELSE "none"

\* `item.<attr>`: the lookup alone, the attribute not called
GetAttribute(f, t, k, attr) ==
    /\ result' = [Wrote("getattr", f, t, k, "none", "none",
                        Dyntastic_getattribute(unrefreshed, t, k, attr))
                      EXCEPT !.attr = attr]
    /\ UNCHANGED <<tw, transaction_writer_var, bw, batch_writer_attr, stack, table_items,
                   tx_calls, bw_calls, next_id, unrefreshed>>

\* item.ignore_unrefreshed() (main.py:682-683)
IgnoreUnrefreshed(f, t, k) ==
    /\ unrefreshed' = unrefreshed \ {<<t, k>>}
    /\ result' = Wrote("ignore_unrefreshed", f, t, k, "none", "none", "none")
    /\ UNCHANGED <<tw, transaction_writer_var, bw, batch_writer_attr, stack, table_items,
                   tx_calls, bw_calls, next_id>>

\* item.refresh() (main.py:382-386)
Refresh(f, t, k) ==
    LET r == Dyntastic_refresh(unrefreshed, t, k, table_items)
    IN  /\ unrefreshed' = r.unrefreshed
        /\ result' = [Wrote("refresh", f, t, k, "none", "none", r.raised) EXCEPT
                          !.read = TRUE, !.loaded = r.loaded]
        /\ UNCHANGED <<tw, transaction_writer_var, bw, batch_writer_attr, stack,
                       table_items, tx_calls, bw_calls, next_id>>

(***************************************************************************)
(* The update builders of Attr (attr.py:289-343) and the statement         *)
(* `item.update(A.x.set(...), A.y.remove(...), condition=c)`.              *)
(***************************************************************************)
\* the index handed to remove(): its type, whether isinstance(index, int)
\* holds, and its value as an int
Index(type, isinstance_int, int) ==
    [type |-> type, isinstance_int |-> isinstance_int, int |-> int]
IndexNone == Index("NoneType", FALSE, -1)
IndexInt(i) == Index("int", TRUE, i)
\* "asd" (test_update_expressions.py:213)
IndexStr == Index("str", FALSE, -1)
\* CustomInt(0), a subclass of int with its own __str__
\* (test_update_expressions.py:216-224)
IndexCustomInt(i) == Index("CustomInt", TRUE, i)

\* variant: the index accepted on isinstance(index, int)
remove_index_ok_isinstance(index) == index.type = "NoneType" \/ index.isinstance_int

\* attr.py:189: `index is not None and type(index) is not int` raises
remove_index_ok(index) == index.type = "NoneType" \/ index.type = "int"

\* what building an update action gives: the action, or the error raised
Built(action) == [raised |-> "none", action |-> action]
BuildRaised(e) == [raised |-> e, action |-> ActionRemove(Attr(<<>>), -1)]

\* _ActionRemove.__init__ (attr.py:185-193)
ActionRemove_init(path, index) ==
    IF ~remove_index_ok(index) THEN BuildRaised("ValueError")
    ELSE Built(ActionRemove(path, index.int))

\* Attr.if_not_exists, __add__, __sub__ (attr.py:289-315)
Attr_if_not_exists(self, value) == UpdateFn("if_not_exists", <<self, value>>)
Attr_plus(self, value) == Operator("+", self, value)
Attr_minus(self, value) == Operator("-", self, value)

\* an argument of update() as written: a method of A.<path> and what it is
\* handed, a value (set, set_default, add) or an index (remove)
Call(method, path, value, index) ==
    [method |-> method, path |-> path, value |-> value, index |-> index]

\* Attr.set, set_default, remove, add (attr.py:319-336); add is handed a number
evaluate(call) ==
    CASE call.method = "set" -> Built(ActionSet(call.path, call.value))
      [] call.method = "set_default" ->
            Built(ActionSet(call.path, Attr_if_not_exists(call.path, call.value)))
      [] call.method = "remove" -> ActionRemove_init(call.path, call.index)
      [] OTHER -> Built(ActionAdd(call.path, call.value))

\* the arguments of the updates of SpecRequest (test_update_expressions.py:75-86,
\* 135-149, 195-224; A.data.set(None))
my_int == Attr(<<"my_int">>)
my_list == Attr(<<"my_dict", ".", "my_list">>)
RequestCalls ==
    {Call("set", my_int, Attr_plus(my_int, Value("100")), IndexNone),
     Call("set_default", my_int, Value("100"), IndexNone),
     Call("set", Attr(<<"data">>), Value(None), IndexNone),
     Call("remove", my_list, Value(""), IndexInt(1)),
     Call("remove", my_list, Value(""), IndexStr),
     Call("remove", my_list, Value(""), IndexCustomInt(0))}
CallLists == UNION {[1..n -> RequestCalls] : n \in 1..MaxCalls}
RequestConditions == {"none", "eq"}

\* the statement item.update(*calls, condition=c, refresh=False): `item.update`
\* is looked up, then the arguments are evaluated from left to right, then
\* update() runs (main.py:348-380)
UpdateCall(f, t, k, calls, c) ==
    LET built == [i \in 1..Len(calls) |-> evaluate(calls[i])]
        failed == {i \in 1..Len(calls) : built[i].raised # "none"}
        actions == [i \in 1..Len(calls) |-> built[i].action]
    IN  IF failed # {} /\ ~getattribute_raises(unrefreshed, t, k)
        THEN /\ result' = [Wrote("update_item", f, t, k, c, "none",
                                  built[CHOOSE i \in failed : \A j \in failed : i <= j].raised)
                              EXCEPT !.calls = calls]
             /\ next_id' = next_id + 1
             /\ UNCHANGED <<tw, transaction_writer_var, bw, batch_writer_attr, stack,
                            table_items, tx_calls, bw_calls, unrefreshed>>
        ELSE Update(f, t, k, [U(IF failed # {} THEN <<>> ELSE actions, c, FALSE, FALSE)
                                 EXCEPT !.calls = calls])

(***************************************************************************)
(* SpecRequest: updates written with the builders of Attr, with and        *)
(* without a condition, outside and inside a transaction scope.            *)
(***************************************************************************)
NextRequest ==
    \/ TxWith(MainFlow, 1, FALSE, TRANSACTION_MAX_ITEMS)
    \/ \E exc \in BOOLEAN : TxExit(MainFlow, exc)
    \/ \E calls \in CallLists, c \in RequestConditions :
          next_id <= MaxRequestOps /\ UpdateCall(MainFlow, "Table", 1, calls, c)

SpecRequest == Init /\ [][NextRequest]_vars

(***************************************************************************)
(* SpecUpdate: one flow that saves, deletes and updates one item, inside   *)
(* and outside a transaction scope, and reads the instance.                *)
(***************************************************************************)
NextUpdate ==
    \/ \E ac \in BOOLEAN, ce \in UpdateCommitEveryInputs : TxWith(MainFlow, 1, ac, ce)
    \/ \E exc \in BOOLEAN : TxExit(MainFlow, exc)
    \/ \E x \in UpdateWrites :
          next_id <= MaxUpdateOps
          /\ Write(MainFlow, x.table, x.operation, x.key, x.cond, "all")
    \/ \E u \in UpdateInputs : next_id <= MaxUpdateOps /\ Update(MainFlow, "Table", 1, u)
    \/ ReadField(MainFlow, "Table", 1)
    \/ IgnoreUnrefreshed(MainFlow, "Table", 1)
    \/ Refresh(MainFlow, "Table", 1)

SpecUpdate == Init /\ [][NextUpdate]_vars

(***************************************************************************)
(* SpecInstance: one instance that is updated, looked at, refreshed and    *)
(* released, while other instances of its key save and delete the item.    *)
(***************************************************************************)
InstanceUpdates ==
    {U(<<SetData>>, "none", FALSE, FALSE), U(<<SetData>>, "exists", FALSE, FALSE),
     U(<<SetData>>, "none", FALSE, TRUE)}
InstanceWrites == {W("Table", "put_item", 1, "none"), W("Table", "delete_item", 1, "none")}

NextInstance ==
    \/ TxWith(MainFlow, 1, FALSE, TRANSACTION_MAX_ITEMS)
    \/ \E exc \in BOOLEAN : TxExit(MainFlow, exc)
    \/ \E x \in InstanceWrites :
          next_id <= MaxInstanceOps
          /\ Write(MainFlow, x.table, x.operation, x.key, x.cond, "all")
    \/ \E u \in InstanceUpdates :
          next_id <= MaxInstanceOps /\ Update(MainFlow, "Table", 1, u)
    \/ \E attr \in AttributeNames : GetAttribute(MainFlow, "Table", 1, attr)
    \/ IgnoreUnrefreshed(MainFlow, "Table", 1)
    \/ Refresh(MainFlow, "Table", 1)

SpecInstance == Init /\ [][NextInstance]_vars

(***************************************************************************)
(* SpecCompile: updates with every list of up to MaxActions actions.       *)
(***************************************************************************)
NextCompile ==
    \E actions \in ActionLists :
        next_id <= MaxCompileOps
        /\ Update(MainFlow, "Table", 1, U(actions, "none", FALSE, FALSE))

SpecCompile == Init /\ [][NextCompile]_vars

(***************************************************************************)
(* SpecPrint: actions are printed (str(), repr()) and compiled             *)
(* (translate_updates) one after the other; `result.variables` is the      *)
(* _Variables object the last of these calls worked with.                  *)
(***************************************************************************)
\* variant: the call goes on with the _Variables of the call before it
Variables_last(last) == last
\* `variables = _Variables()` (attr.py:108, 213): a new object, whatever the
\* call before left behind
Variables_new(last) == Variables_init

\* the actions handed to translate_updates in SpecPrint
PrintActions == CompileActions \ {ActionDelete(Attr(<<"s">>), Value("x"))}
PrintLists == UNION {[1..n -> PrintActions] : n \in 1..MaxPrintActions}

\* _UpdateAction.__str__ / __repr__ (attr.py:107-120)
Str(f, action) ==
    /\ \E serialized \in {build(action, Variables_new(result.variables))} :
          result' = [Did("str", f, "none") EXCEPT
                        !.actions = <<action>>,
                        !.printed =
                            ("Expression" :> <<action.update_action, " ">> \o serialized.text)
                                @@ ("Attributes" :> serialized.variables.attributes)
                                @@ ("Values" :> serialized.variables.values),
                        !.variables = serialized.variables]
    /\ next_id' = next_id + 1
    /\ UNCHANGED <<tw, transaction_writer_var, bw, batch_writer_attr, stack, tx_calls,
                   bw_calls, table_items, unrefreshed>>

\* translate_updates(*actions) (attr.py:212-233)
Translate(f, actions) ==
    /\ \E built \in {build_all(actions, Variables_new(result.variables))} :
          result' = [Did("translate_updates", f, "none") EXCEPT
                        !.actions = actions,
                        !.translated = translate_built(actions, built),
                        !.variables = built.variables]
    /\ next_id' = next_id + 1
    /\ UNCHANGED <<tw, transaction_writer_var, bw, batch_writer_attr, stack, tx_calls,
                   bw_calls, table_items, unrefreshed>>

NextPrint ==
    \/ \E action \in CompileActions : next_id <= MaxPrintOps /\ Str(MainFlow, action)
    \/ \E actions \in PrintLists : next_id <= MaxPrintOps /\ Translate(MainFlow, actions)

SpecPrint == Init /\ [][NextPrint]_vars

(***************************************************************************)
(* query() and scan() (main.py:209-338): the pages of one iteration, up to *)
(* its end.                                                                *)
(***************************************************************************)
\* last_evaluated_key: None or the key of the last row the store examined
NoKey == [present |-> FALSE, key |-> 0]
LastKey(k) == [present |-> TRUE, key |-> k]
\* per_page=None: _dyntastic_call drops the Limit (main.py:661)
NoLimit == 0

\* the keys of a table in the order the store walks them
RECURSIVE ascending(_)
ascending(keys) ==
    IF keys = {} THEN <<>>
    ELSE LET least == CHOOSE k \in keys : \A j \in keys : k <= j
         IN  <<least>> \o ascending(keys \ {least})

\* FilterExpression: none, or the key compared with a literal (==, !=)
filter_passes(filter, k) ==
    CASE filter = "eq" -> ToString(k) = eq_value
      [] filter = "ne" -> ToString(k) # eq_value
      [] OTHER -> TRUE

\* the store's answer to one query or scan request: it examines the rows after
\* ExclusiveStartKey that meet the key condition, up to Limit of them (up to
\* its own page size without a Limit), returns those that pass the filter,
\* and LastEvaluatedKey when it stopped at that bound; having stopped exactly
\* at the last row it may or may not report a key (at_end)
store_page(rows, operation, hash_key, filter, limit, start, at_end) ==
    LET candidates ==
            SelectSeq(rows, LAMBDA k : /\ operation = "scan" \/ k = hash_key
                                       /\ ~start.present \/ k > start.key)
        bound == IF limit = NoLimit THEN MaxPageRows ELSE limit
        examined == SubSeq(candidates, 1, IF Len(candidates) < bound
                                          THEN Len(candidates) ELSE bound)
    IN  [Items |-> SelectSeq(examined, LAMBDA k : filter_passes(filter, k)),
         LastEvaluatedKey |->
             IF Len(candidates) > bound \/ (Len(candidates) = bound /\ ~at_end)
             THEN LastKey(examined[Len(examined)]) ELSE NoKey]

\* variant: a page without items ends the iteration
ResultPage_has_more_items(items, last_evaluated_key) ==
    last_evaluated_key.present /\ items # <<>>
\* ResultPage.__init__ (main.py:44-47): has_more
ResultPage_has_more(items, last_evaluated_key) == last_evaluated_key.present

\* the loop of query() / scan() (main.py:222-239, 298-311), the generator
\* consumed to its end: the keys sent, the pages received, the items yielded
RECURSIVE iterate(_, _, _, _, _, _, _, _)
iterate(rows, operation, hash_key, filter, per_page, last_evaluated_key, at_end, so_far) ==
    LET response == store_page(rows, operation, hash_key, filter, per_page,
                               last_evaluated_key, at_end)
        page == [items |-> response.Items,
                 last_evaluated_key |-> response.LastEvaluatedKey,
                 has_more |-> ResultPage_has_more(response.Items,
                                                  response.LastEvaluatedKey)]
        now == [requests |-> Append(so_far.requests, last_evaluated_key),
                pages |-> Append(so_far.pages, page),
                yielded |-> so_far.yielded \o page.items]
    IN  IF ~page.has_more THEN now
        ELSE iterate(rows, operation, hash_key, filter, per_page,
                     page.last_evaluated_key, at_end, now)

\* _dyntastic_call for query and scan (main.py:663-670): never buffered
dyntastic_call_read(attr, transaction_writer) ==
    LET got == batch_writer_var_get(attr)
    IN  IF got.raised # "none" THEN got.raised
        ELSE IF got.value # NoWriter /\ transaction_writer # NoWriter THEN "ValueError"
        ELSE "direct"

\* list(Model.query(hash_key, ...)) and list(Model.scan(...))
Read(f, operation, t, hash_key, filter, per_page, start, at_end) ==
    /\ LET route == dyntastic_call_read(batch_writer_attr[t], current_transaction_writer(f))
           args == [per_page |-> per_page, last_evaluated_key |-> start]
       IN  IF route # "direct"
           THEN result' = [Wrote(operation, f, t, hash_key, filter, "none", route)
                              EXCEPT !.args = args]
           ELSE \E done \in {iterate(ascending(table_items[t]), operation, hash_key,
                                      filter, per_page, start, at_end,
                                      [requests |-> <<>>, pages |-> <<>>,
                                       yielded |-> <<>>])} :
                    result' = [Wrote(operation, f, t, hash_key, filter, route, "none")
                                  EXCEPT !.args = args, !.requests = done.requests,
                                         !.pages = done.pages, !.yielded = done.yielded]
    /\ UNCHANGED <<tw, transaction_writer_var, bw, batch_writer_attr, stack, tx_calls,
                   bw_calls, table_items, next_id, unrefreshed>>

QueryWrites ==
    {W("Table", "put_item", k, "none") : k \in 1..MaxRows}
        \cup {W("Table", "delete_item", 1, "none")}
PerPageInputs == {NoLimit, 1, 2}
StartInputs == {NoKey, LastKey(1)}

NextQuery ==
    \/ \E x \in QueryWrites :
          next_id <= MaxQueryOps /\ Write(MainFlow, x.table, x.operation, x.key, x.cond, "all")
    \/ \E h \in 1..MaxRows, per_page \in PerPageInputs, start \in StartInputs,
          at_end \in BOOLEAN :
          Read(MainFlow, "query", "Table", h, "none", per_page, start, at_end)
    \/ \E filter \in {"none", "eq", "ne"}, per_page \in PerPageInputs, start \in StartInputs,
          at_end \in BOOLEAN :
          Read(MainFlow, "scan", "Table", 0, filter, per_page, start, at_end)

SpecQuery == Init /\ [][NextQuery]_vars

(***************************************************************************)
(* SpecTx: one flow, one transaction scope, writes of every kind before,   *)
(* inside and after it.                                                    *)
(***************************************************************************)
NextTx ==
    \/ \E ac \in BOOLEAN, ce \in CommitEveryInputs : TxWith(MainFlow, 1, ac, ce)
    \/ \E exc \in BOOLEAN : TxExit(MainFlow, exc)
    \/ Len(tx_calls) < MaxManualCommits /\ TxCommit(MainFlow, 1)
    \/ \E x \in TxWrites :
          next_id <= MaxTxOps /\ Write(MainFlow, x.table, x.operation, x.key, x.cond, "all")
    \/ next_id <= MaxTxOps /\ TransactionCondition(MainFlow, "Table", 1, "exists")

SpecTx == Init /\ [][NextTx]_vars

(***************************************************************************)
(* SpecBatch: one flow, one batch-writer scope.                            *)
(***************************************************************************)
NextBatch ==
    \/ \E size \in BatchSizeInputs : BwWith(MainFlow, 1, "Table", size)
    \/ \E exc \in BOOLEAN, plan \in StorePlans : BwExit(MainFlow, exc, plan)
    \/ \E x \in BatchAdds, plan \in StorePlans :
          next_id <= MaxBatchOps /\ BwAdd(MainFlow, 1, x.operation, x.key, plan)
    \/ \E x \in BatchWrites, plan \in StorePlans :
          next_id <= MaxBatchOps
          /\ Write(MainFlow, x.table, x.operation, x.key, x.cond, plan)

SpecBatch == Init /\ [][NextBatch]_vars

(***************************************************************************)
(* SpecBatchFail: one batch-writer scope whose submissions may be refused  *)
(* by the store or exhaust the retries of invoke_with_backoff.             *)
(***************************************************************************)
NextBatchFail ==
    \/ \E size \in BatchSizeInputs : BwWith(MainFlow, 1, "Table", size)
    \/ \E exc \in BOOLEAN, plan \in FailPlans : BwExit(MainFlow, exc, plan)
    \/ \E x \in BatchAdds, plan \in FailPlans :
          next_id <= MaxBatchFailOps /\ BwAdd(MainFlow, 1, x.operation, x.key, plan)

SpecBatchFail == Init /\ [][NextBatchFail]_vars

(***************************************************************************)
(* Spec: one flow that may nest a batch-writer scope and a transaction     *)
(* scope in either order.                                                  *)
(***************************************************************************)
Next ==
    \/ \E ac \in BOOLEAN, ce \in BothCommitEveryInputs : TxWith(MainFlow, 1, ac, ce)
    \/ \E exc \in BOOLEAN : TxExit(MainFlow, exc)
    \/ \E size \in BothBatchSizeInputs : BwWith(MainFlow, 1, "Table", size)
    \/ \E exc \in BOOLEAN : BwExit(MainFlow, exc, "all")
    \/ \E x \in BatchAdds :
          next_id <= MaxOps /\ BwAdd(MainFlow, 1, x.operation, x.key, "all")
    \/ \E x \in BothWrites :
          next_id <= MaxOps
          /\ Write(MainFlow, x.table, x.operation, x.key, x.cond, "all")

Spec == Init /\ [][Next]_vars

(***************************************************************************)
(* SpecTxCap: one transaction scope filled with saves of distinct keys,    *)
(* past the store's ceiling (test_transact_write.py:68-111).               *)
(***************************************************************************)
NextTxCap ==
    \/ \E ac \in BOOLEAN, ce \in CapCommitEveryInputs : TxWith(MainFlow, 1, ac, ce)
    \/ \E exc \in BOOLEAN : TxExit(MainFlow, exc)
    \/ /\ next_id <= MaxTxCapOps
       /\ InScope(MainFlow, "tx", 1)
       /\ Write(MainFlow, "Table", "put_item", next_id, "none", "all")

SpecTxCap == Init /\ [][NextTxCap]_vars

(***************************************************************************)
(* SpecTxReject: one transaction scope filled to the store's ceiling, with *)
(* a write to a table of another region tried when the buffer holds one    *)
(* operation and when it is full.                                          *)
(***************************************************************************)
NextTxReject ==
    \/ \E ac \in BOOLEAN, ce \in CapCommitEveryInputs : TxWith(MainFlow, 1, ac, ce)
    \/ \E exc \in BOOLEAN : TxExit(MainFlow, exc)
    \/ /\ next_id <= MaxTxCapOps
       /\ InScope(MainFlow, "tx", 1)
       /\ Write(MainFlow, "Table", "put_item", next_id, "none", "all")
    \/ /\ next_id <= MaxTxCapOps
       /\ InScope(MainFlow, "tx", 1)
       /\ Len(tw[1].items) \in {1, TRANSACTION_MAX_ITEMS}
       /\ result.table # "TableWest"
       /\ Write(MainFlow, "TableWest", "put_item", next_id, "none", "all")

SpecTxReject == Init /\ [][NextTxReject]_vars

(***************************************************************************)
(* SpecBatchCap: one batch-writer scope filled past the store's ceiling,   *)
(* against a store that processes every request item it is sent.           *)
(***************************************************************************)
NextBatchCap ==
    \/ \E size \in BatchCapSizeInputs : BwWith(MainFlow, 1, "Table", size)
    \/ \E exc \in BOOLEAN : BwExit(MainFlow, exc, "all")
    \/ /\ next_id <= MaxBatchCapOps
       /\ BwAdd(MainFlow, 1, "put_item", next_id, "all")

SpecBatchCap == Init /\ [][NextBatchCap]_vars

(***************************************************************************)
(* SpecTxFlows: two concurrent flows (threads, or tasks started outside    *)
(* any scope: each starts from the ContextVar's default), each opening     *)
(* transaction scopes of its own and issuing writes.                       *)
(***************************************************************************)
NextTxFlows ==
    \/ \E f \in Flows, w \in TxWriters, ac \in BOOLEAN, ce \in FlowCommitEveryInputs :
          TxWith(f, w, ac, ce)
    \/ \E f \in Flows, exc \in BOOLEAN : TxExit(f, exc)
    \/ \E f \in Flows, x \in FlowWrites :
          next_id <= MaxTxFlowOps /\ Write(f, x.table, x.operation, x.key, x.cond, "all")

SpecTxFlows == Init /\ [][NextTxFlows]_vars

(***************************************************************************)
(* SpecBatchFlows: two concurrent flows, each opening batch-writer scopes  *)
(* of its own on one model type and issuing writes.                        *)
(***************************************************************************)
NextBatchFlows ==
    \/ \E f \in Flows, b \in BatchWriters, size \in FlowBatchSizeInputs :
          BwWith(f, b, "Table", size)
    \/ \E f \in Flows, exc \in BOOLEAN : BwExit(f, exc, "all")
    \/ \E f \in Flows, x \in FlowWrites :
          next_id <= MaxBatchFlowOps
          /\ Write(f, x.table, x.operation, x.key, x.cond, "all")

SpecBatchFlows == Init /\ [][NextBatchFlows]_vars

(***************************************************************************)
(* Properties.                                                             *)
(***************************************************************************)
\* the writes issued so far
Issued == next_id - 1
StoreEmpty == \A t \in Tables : table_items[t] = {}
\* a step that leaves the innermost scope of flow f, a scope of this kind
Leaves(f, kind) ==
    /\ stack[f] # <<>>
    /\ Top(f).kind = kind
    /\ Len(stack'[f]) < Len(stack[f])
\* a step in which a save or delete without condition is issued on model type t
IssuesPlainWrite(t) ==
    /\ next_id' = next_id + 1
    /\ result'.op \in WriteOps
    /\ result'.table = t
    /\ result'.cond = "none"

\* C1: without auto-commit, the first TRANSACTION_MAX_ITEMS adds of a scope
\* succeed and are only buffered, in order; every add after them raises; the
\* store has received no call and holds nothing while the scope is open, and
\* still has received nothing once the error has left the scope.
C1_NoAutoCommitCeiling ==
    (tw[1].made /\ ~tw[1].auto_commit) =>
        /\ Active("tx", 1) =>
              /\ Len(tw[1].items) =
                    IF Issued <= TRANSACTION_MAX_ITEMS THEN Issued
                    ELSE TRANSACTION_MAX_ITEMS
              /\ \A i \in 1..Len(tw[1].items) : tw[1].items[i].id = i
              /\ tx_calls = <<>>
              /\ StoreEmpty
        /\ (result.op = "put_item" /\ Issued <= TRANSACTION_MAX_ITEMS) =>
              (result.raised = "none" /\ result.route = "transact")
        /\ (result.op = "put_item" /\ Issued > TRANSACTION_MAX_ITEMS) =>
              result.raised = "MaxItemsError"
        /\ (result.op = "tx_exit" /\ result.exc) => (tx_calls = <<>> /\ StoreEmpty)

\* the 101st add was refused and its error has left the scope
C1_Witness ==
    /\ tw[1].made /\ ~tw[1].auto_commit
    /\ result.op = "tx_exit" /\ result.exc
    /\ Issued = TRANSACTION_MAX_ITEMS + 1
    /\ Len(tw[1].items) = TRANSACTION_MAX_ITEMS
    /\ tx_calls = <<>>

\* C2: with auto_commit on and 1 <= commit_every = K <= 100, every K-th add
\* commits and empties the buffer, so the buffer never holds K operations once
\* an add is over, and no commit carries more than K operations.
C2_EveryKthAddEmptiesBuffer ==
    \A w \in TxWriters :
        (tw[w].made /\ tw[w].auto_commit
         /\ tw[w].commit_max \in 1..TRANSACTION_MAX_ITEMS) =>
            /\ Len(tw[w].items) < tw[w].commit_max
            /\ \A i \in 1..Len(tx_calls) : Len(tx_calls[i].items) <= tw[w].commit_max

\* C3: every transact_write_items call carries at most TRANSACTION_MAX_ITEMS
\* operations.
C3_CallsWithinCeiling ==
    \A i \in 1..Len(tx_calls) : Len(tx_calls[i].items) <= TRANSACTION_MAX_ITEMS

\* C4: leaving a transaction scope without an exception commits the whole
\* buffer in one call (no call for an empty buffer); leaving it by an exception
\* makes no call and keeps the buffer; and once the scope is left no call sends
\* an operation of that writer.
C4_ExitCommitsUnlessRaised ==
    [][/\ \A f \in Flows :
             Leaves(f, "tx") =>
                LET w == Top(f).id
                IN  IF result'.exc
                    THEN /\ tx_calls' = tx_calls
                         /\ table_items' = table_items
                         /\ tw'[w].items = tw[w].items
                    ELSE IF tw[w].items = <<>>
                    THEN tx_calls' = tx_calls
                    ELSE /\ Len(tx_calls') = Len(tx_calls) + 1
                         /\ tx_calls'[Len(tx_calls')].items = tw[w].items
       /\ \A w \in TxWriters :
             (tw[w].made /\ ~Active("tx", w)) =>
                \A i \in (Len(tx_calls) + 1)..Len(tx_calls') :
                    \A j \in 1..Len(tx_calls'[i].items) :
                        \A n \in 1..Len(tw[w].items) :
                            tx_calls'[i].items[j].id # tw[w].items[n].id
      ]_vars

\* a scope left by an exception with operations still buffered and nothing sent
C4_Witness ==
    /\ result.op = "tx_exit" /\ result.exc
    /\ tw[1].items # <<>>
    /\ tx_calls = <<>>

\* C5: while a batch writer is active for a model type, a save or delete
\* issued on that type is appended to the writer's buffer, and the store does
\* not change unless a flush happens.
C5_ActiveWriterCapturesWrites ==
    [][\A b \in BatchWriters :
          (Active("bw", b) /\ IssuesPlainWrite(bw[b].table)) =>
              /\ \/ /\ Len(bw'[b].batch) = Len(bw[b].batch) + 1
                    /\ bw'[b].batch[Len(bw'[b].batch)].id = next_id
                 \/ bw_calls' # bw_calls
              /\ bw_calls' = bw_calls => table_items' = table_items
      ]_vars

\* C6: with batch size B >= 1 and N items added in one batch-writer scope, a
\* submission happens after every B-th add and once more at scope exit for a
\* non-empty remainder, so that len(writer) is N \div B inside the scope and
\* ceil(N/B) after it (zero when nothing was added).
C6_SubmissionsCeil ==
    (bw[1].made /\ bw[1].batch_size >= 1) =>
        LET B == bw[1].batch_size
            N == Issued
        IN  IF Active("bw", 1)
            THEN /\ BatchWriter_len(bw[1]) = N \div B
                 /\ Len(bw[1].batch) = N % B
                 /\ Len(bw_calls) = N \div B
                 /\ \A i \in 1..Len(bw_calls) : Len(bw_calls[i].items) = B
            ELSE /\ BatchWriter_len(bw[1]) = (N + B - 1) \div B
                 /\ Len(bw_calls) = (N + B - 1) \div B
                 /\ bw[1].batch = <<>>

\* a scope left after one full group and a remainder of one
C6_Witness ==
    /\ bw[1].made /\ ~Active("bw", 1)
    /\ bw[1].batch_size = BATCH_MAX_ITEMS
    /\ Issued = BATCH_MAX_ITEMS + 1
    /\ BatchWriter_len(bw[1]) = 2

\* C7: every batch_write_item call carries at most BATCH_MAX_ITEMS request items.
C7_BatchCallsWithinCeiling ==
    \A i \in 1..Len(bw_calls) : Len(bw_calls[i].items) <= BATCH_MAX_ITEMS

\* C8: leaving a batch-writer scope, by an exception or not, submits the whole
\* remaining buffer (nothing for an empty one), and the store holds its writes
\* unless the submission ran out of attempts.
C8_ExitAlwaysFlushes ==
    [][\A f \in Flows :
          Leaves(f, "bw") =>
             LET b == Top(f).id
             IN  IF bw[b].batch = <<>>
                 THEN bw_calls' = bw_calls
                 ELSE /\ Len(bw_calls') > Len(bw_calls)
                      /\ bw_calls'[Len(bw_calls) + 1].table = bw[b].table
                      /\ bw_calls'[Len(bw_calls) + 1].items = bw[b].batch
                      /\ result'.raised # "MaxAttemptsError" =>
                            table_items' = apply_all(table_items, bw[b].batch)
      ]_vars

\* a scope left by an exception whose one buffered put reached the store on exit
C8_Witness ==
    /\ result.op = "bw_exit" /\ result.exc /\ result.raised = "BodyError"
    /\ bw[1].batch_size = 3
    /\ Len(bw_calls) = 1
    /\ Len(bw_calls[1].items) = 1
    /\ bw_calls[1].items[1].key \in table_items["Table"]

\* C9: after a batch-writer scope is left, a save or delete on its model type
\* is sent to the store directly and does not fail in the client.
C9_WritesDirectAfterScope ==
    \A b \in BatchWriters :
        (bw[b].made /\ ~Active("bw", b)
         /\ result.op \in WriteOps /\ result.table = bw[b].table) =>
            /\ result.route = "direct"
            /\ result.raised \in {"none", "ConditionalCheckFailed"}

C11_RegionMismatchRaises ==
    [][\A f \in Flows, w \in TxWriters :
          (/\ current_transaction_writer(f) = w
           /\ tw[w].first_table # NoTable
           /\ next_id' = next_id + 1
           /\ result'.flow = f
           /\ result'.op \in WriteOps \cup {"transaction_condition"}
           /\ table_region(result'.table) # table_region(tw[w].first_table)) =>
              /\ result'.raised \in {"AssertionError", "MaxItemsError"}
              /\ tw'[w].items = tw[w].items
              /\ tx_calls' = tx_calls
              /\ table_items' = table_items
      ]_vars

\* a save on the us-west-2 model type was refused after a save on a model type
\* of the default region was buffered
C11_Witness ==
    /\ InScope(MainFlow, "tx", 1)
    /\ tw[1].first_table = "Table"
    /\ result.op = "put_item" /\ result.table = "TableWest"
    /\ result.raised = "AssertionError"
    /\ Len(tw[1].items) = 1
    /\ tx_calls = <<>>

\* C12: with two concurrent flows, a step of one flow never changes the
\* transaction writer the other flow observes; a save or delete of a flow that
\* observes no transaction writer is sent directly and changes no writer's
\* buffer; and a write that is buffered enters the writer of a scope the
\* issuing flow itself is inside, and no other writer.
C12_TransactionScopeLocal ==
    [][\A f \in Flows :
          /\ result'.flow # f =>
                transaction_writer_var'[f] = transaction_writer_var[f]
          /\ (/\ next_id' = next_id + 1
              /\ result'.flow = f
              /\ result'.op \in WriteOps) =>
                IF current_transaction_writer(f) = NoWriter
                THEN /\ result'.route = "direct"
                     /\ tw' = tw
                     /\ tx_calls' = tx_calls
                ELSE /\ InScope(f, "tx", current_transaction_writer(f))
                     /\ \A w \in TxWriters :
                           w # current_transaction_writer(f) => tw'[w] = tw[w]
      ]_vars

\* while the other flow is inside a transaction scope with a write buffered,
\* the main flow, inside no scope, has just sent a save directly
C12_Witness ==
    /\ transaction_writer_var["other"] # NoWriter
    /\ Len(tw[transaction_writer_var["other"]].items) >= 1
    /\ transaction_writer_var[MainFlow] = NoWriter
    /\ stack[MainFlow] = <<>>
    /\ result.flow = MainFlow /\ result.op = "put_item"
    /\ result.route = "direct" /\ result.raised = "none"
    /\ result.key \in table_items[result.table]

\* C13: with two concurrent flows, a save or delete issued on a model type by
\* a flow that is inside no batch-writer scope, while another flow has a batch
\* writer active for that type, is sent to the store directly and changes no
\* batch writer's buffer.
C13_BatchScopeLocal ==
    [][\A f \in Flows, b \in BatchWriters :
          (/\ Active("bw", b)
           /\ \A v \in BatchWriters : ~InScope(f, "bw", v)
           /\ next_id' = next_id + 1
           /\ result'.flow = f
           /\ result'.op \in WriteOps
           /\ result'.table = bw[b].table) =>
              /\ result'.route = "direct"
              /\ result'.raised \in {"none", "ConditionalCheckFailed"}
              /\ bw' = bw
      ]_vars

\* C14: the batch_write_item calls of one submission: each call after the
\* first follows a response that reported unprocessed items and carries exactly
\* those; the submission returns on the first response that reports none, and
\* fails once more than max_attempts responses in a row reported some, so it
\* never makes more than max_attempts + 1 calls.
C14_ResubmitsOnlyUnprocessed ==
    [][LET n == Len(bw_calls') - Len(bw_calls)
           call(i) == bw_calls'[Len(bw_calls) + i]
       IN  n >= 1 =>
              /\ n <= max_attempts + 1
              /\ \A i \in 1..(n - 1) :
                    /\ call(i).unprocessed # <<>>
                    /\ call(i + 1).items = call(i).unprocessed
                    /\ call(i + 1).table = call(i).table
              /\ IF call(n).unprocessed = <<>>
                 THEN result'.raised # "MaxAttemptsError"
                 ELSE n = max_attempts + 1 /\ result'.raised = "MaxAttemptsError"
      ]_vars

\* a submission of two request items whose first response left one of them
\* unprocessed and whose second call, carrying that one, finished it
C14_Witness ==
    /\ Len(bw_calls) = 2
    /\ Len(bw_calls[1].items) = 2
    /\ bw_calls[1].unprocessed = <<bw_calls[1].items[2]>>
    /\ bw_calls[2].items = bw_calls[1].unprocessed
    /\ bw_calls[2].unprocessed = <<>>
    /\ result.raised = "none"

\* C15: while a batch writer is active for a model type, a save or delete
\* issued on that type with a condition is rejected for its extra argument (the
\* ValueError of _construct_batch_item): nothing is appended to the buffer and
\* nothing is sent.
C15_ExtraArgumentRejected ==
    [][\A b \in BatchWriters :
          (/\ Active("bw", b)
           /\ next_id' = next_id + 1
           /\ result'.op \in WriteOps
           /\ result'.table = bw[b].table
           /\ result'.cond # "none") =>
              /\ result'.raised = "ValueError"
              /\ bw' = bw
              /\ bw_calls' = bw_calls
              /\ table_items' = table_items
      ]_vars

ConditionFailsAtStore ==
    /\ next_id' = next_id + 1
    /\ result'.op \in WriteOps \cup {"update_item"}
    /\ result'.route = "direct"
    /\ ~condition_holds(table_items, result'.table, result'.key, result'.cond)

\* C17 (as stated): a conditional-check failure reported by the store for a
\* save, delete or update with no coordinator active is swallowed, and reaches
\* the caller only when require_condition was given.
C17_FailedConditionSwallowed ==
    [][ConditionFailsAtStore =>
          result'.raised =
              IF result'.require_condition THEN "ConditionalCheckFailed" ELSE "none"
      ]_vars

\* C17 (amended): a conditional-check failure reported by the store is
\* swallowed by update() unless require_condition was given, and always reaches
\* the caller of save() and delete(); in each case the store and the instance
\* are left as they were.
C17_OnlyUpdateSwallows ==
    [][ConditionFailsAtStore =>
          /\ result'.raised =
                IF result'.op = "update_item" /\ ~result'.require_condition
                THEN "none" ELSE "ConditionalCheckFailed"
          /\ table_items' = table_items
          /\ unrefreshed' = unrefreshed
          /\ ~result'.read
      ]_vars

\* an update whose condition failed at the store has returned without raising
C17_Witness ==
    /\ result.op = "update_item" /\ result.route = "direct"
    /\ result.cond = "exists" /\ result.key \notin table_items[result.table]
    /\ ~result.require_condition
    /\ result.raised = "none"
    /\ <<result.table, result.key>> \notin unrefreshed

\* C18: every transact_write_items call carries exactly the operations added
\* since the previous call, each once, in the order they were issued: it is the
\* writer's buffer (with the operation being added, when the add commits), its
\* operations are in issue order, and all were issued after every operation of
\* every earlier call.
C18_CommitSendsNewOperationsInOrder ==
    [][\A j \in (Len(tx_calls) + 1)..Len(tx_calls') :
          LET call == tx_calls'[j].items
          IN  /\ \A a, b \in 1..Len(call) : a < b => call[a].id < call[b].id
              /\ \A i \in 1..(j - 1) :
                    \A a \in 1..Len(tx_calls'[i].items), b \in 1..Len(call) :
                        tx_calls'[i].items[a].id < call[b].id
              /\ \E w \in TxWriters :
                    \/ call = tw[w].items
                    \/ /\ Len(call) = Len(tw[w].items) + 1
                       /\ SubSeq(call, 1, Len(tw[w].items)) = tw[w].items
                       /\ call[Len(call)].id = next_id
      ]_vars

\* C19: when the store rejects a commit, the caller gets the store's error and
\* the writer's buffer is empty afterwards, so no later call carries an
\* operation of a rejected call.
C19_RejectedCommitDiscardsBuffer ==
    [][/\ \A j \in (Len(tx_calls) + 1)..Len(tx_calls') :
             ~tx_calls'[j].ok =>
                /\ result'.raised = "StoreError"
                /\ \A w \in TxWriters :
                      (tw[w].made /\ tw[w].first_table = tx_calls'[j].client) =>
                          tw'[w].items = <<>>
       /\ \A i, j \in 1..Len(tx_calls') :
             (i < j /\ ~tx_calls'[i].ok) =>
                \A a \in 1..Len(tx_calls'[i].items), b \in 1..Len(tx_calls'[j].items) :
                    tx_calls'[i].items[a].id # tx_calls'[j].items[b].id
      ]_vars

\* the verb keywords, in the order the claim lists them
Verbs == <<"SET", "REMOVE", "ADD", "DELETE">>
\* the verb keywords of an expression text, in the order they appear
VerbsIn(text) == SelectSeq(text, LAMBDA piece : \E n \in 1..Len(Verbs) : Verbs[n] = piece)
\* the compiled fragments of the actions of one verb, in the order supplied
Fragments(actions, verb) ==
    LET texts == build_all(actions, Variables_init).texts
        RECURSIVE of(_)
        of(i) == IF i > Len(actions) THEN <<>>
                 ELSE IF actions[i].update_action = verb THEN <<texts[i]>> \o of(i + 1)
                 ELSE of(i + 1)
    IN  of(1)
\* the position of the first action of a verb
FirstOf(actions, verb) ==
    CHOOSE i \in 1..Len(actions) :
        /\ actions[i].update_action = verb
        /\ \A j \in 1..(i - 1) : actions[j].update_action # verb
\* the text is its verb groups joined by " ", each group the verb, a space, and
\* the fragments of that verb joined by ", " in the order supplied
GroupsJoined(text, actions) ==
    LET vs == VerbsIn(text)
    IN  text = join(" ", [n \in 1..Len(vs) |->
                             <<vs[n], " ">> \o join(", ", Fragments(actions, vs[n]))])
Compiled == result.op = "update_item" /\ result.update_data # <<>>

\* C20 (as stated): the UpdateExpression holds each verb keyword at most once,
\* exactly the verbs that have an action, in the order SET, REMOVE, ADD, DELETE
\* whatever the order of the actions, the fragments of a verb joined by ", " in
\* the order supplied.
C20_VerbGroupsFixedOrder ==
    Compiled =>
        LET text == result.update_data["UpdateExpression"]
        IN  /\ VerbsIn(text) =
                  SelectSeq(Verbs, LAMBDA verb : \E i \in 1..Len(result.actions) :
                                                    result.actions[i].update_action = verb)
            /\ GroupsJoined(text, result.actions)

\* C20 (amended): the UpdateExpression holds each verb keyword at most once,
\* exactly the verbs that have an action, in the order in which each verb first
\* occurs among the actions supplied, the fragments of a verb joined by ", " in
\* the order supplied.
C20_VerbGroupsEncounterOrder ==
    Compiled =>
        LET text == result.update_data["UpdateExpression"]
            vs == VerbsIn(text)
            actions == result.actions
        IN  /\ \A m, n \in 1..Len(vs) : m # n => vs[m] # vs[n]
            /\ {vs[n] : n \in 1..Len(vs)} =
                  {actions[i].update_action : i \in 1..Len(actions)}
            /\ \A m, n \in 1..Len(vs) :
                  m < n => FirstOf(actions, vs[m]) < FirstOf(actions, vs[n])
            /\ GroupsJoined(text, actions)

\* REMOVE, SET, REMOVE compiled to a REMOVE group of two fragments followed by
\* a SET group
C20_Witness ==
    /\ Compiled
    /\ Len(result.actions) = 3
    /\ result.actions[1].update_action = "REMOVE"
    /\ result.actions[2].update_action = "SET"
    /\ result.actions[3].update_action = "REMOVE"
    /\ VerbsIn(result.update_data["UpdateExpression"]) = <<"REMOVE", "SET">>
    /\ Len(Fragments(result.actions, "REMOVE")) = 2

\* the number of segments of a dotted name, and its n-th segment
SegmentCount(name) == 1 + Cardinality({i \in 1..Len(name) : name[i] = "."})
SegmentAt(name, n) ==
    LET dots == {i \in 1..Len(name) : name[i] = "."}
        dot(m) == CHOOSE p \in dots : Cardinality({q \in dots : q < p}) = m - 1
        lo == IF n = 1 THEN 0 ELSE dot(n - 1)
        hi == IF n = SegmentCount(name) THEN Len(name) + 1 ELSE dot(n)
    IN  str(SubSeq(name, lo + 1, hi - 1))

\* C21: the path of the first action, of k segments, compiles to the k distinct
\* placeholders #0..#(k-1) joined by "." right after the verb, placeholder n
\* mapped to segment n; and no placeholder of the name map is bound to the whole
\* dotted string of a path of several segments.
C21_DottedPathPerSegment ==
    Compiled =>
        LET text == result.update_data["UpdateExpression"]
            names == result.update_data["ExpressionAttributeNames"]
            path == result.actions[1].path.name
            k == SegmentCount(path)
        IN  /\ Len(text) >= 2 * k + 1
            /\ \A n \in 1..k :
                  /\ text[2 * n + 1] = "#" \o ToString(n - 1)
                  /\ text[2 * n + 1] \in DOMAIN names
                  /\ names[text[2 * n + 1]] = SegmentAt(path, n)
            /\ \A m, n \in 1..k : m # n => text[2 * m + 1] # text[2 * n + 1]
            /\ \A n \in 1..(k - 1) : text[2 * n + 2] = "."
            /\ Len(text) > 2 * k + 1 => text[2 * k + 2] # "."
            /\ \A i \in 1..Len(result.actions) :
                  SegmentCount(result.actions[i].path.name) > 1 =>
                      \A key \in DOMAIN names :
                          names[key] # str(result.actions[i].path.name)

\* the update of b.c compiled: #0 is b, #1 is c, the text holds #0.#1
C21_Witness ==
    /\ Compiled
    /\ result.actions[1].path.name = <<"b", ".", "c">>
    /\ SubSeq(result.update_data["UpdateExpression"], 3, 5) = <<"#0", ".", "#1">>
    /\ result.update_data["ExpressionAttributeNames"]["#0"] = "b"
    /\ result.update_data["ExpressionAttributeNames"]["#1"] = "c"

\* the leaves of an operand in left-to-right order: the segments of a path and
\* the literals, through the function nodes
RECURSIVE LeavesOf(_)
LeavesOf(x) ==
    CASE x.kind = "Attr" ->
            [n \in 1..SegmentCount(x.name) |->
                [name |-> TRUE, leaf |-> SegmentAt(x.name, n)]]
      [] x.kind = "Value" -> <<[name |-> FALSE, leaf |-> x.value]>>
      [] OTHER ->
            LET RECURSIVE args(_)
                args(i) == IF i > Len(x.args) THEN <<>>
                           ELSE LeavesOf(x.args[i]) \o args(i + 1)
            IN  args(1)
\* the leaves of a list of actions: each action's target path, then its value
RECURSIVE LeavesOfActions(_)
LeavesOfActions(actions) ==
    IF actions = <<>> THEN <<>>
    ELSE LeavesOf(actions[1].path)
             \o (IF actions[1].update_action = "REMOVE" THEN <<>>
                 ELSE LeavesOf(actions[1].value))
             \o LeavesOfActions(Tail(actions))
NameLeaves(actions) == SelectSeq(LeavesOfActions(actions), LAMBDA l : l.name)
ValueLeaves(actions) == SelectSeq(LeavesOfActions(actions), LAMBDA l : ~l.name)
\* the value map of a translation, empty when the key is left out
ValuesOf(translated) ==
    IF "ExpressionAttributeValues" \in DOMAIN translated
    THEN translated["ExpressionAttributeValues"] ELSE <<>>
\* the placeholders of a text, in the order they appear
PlaceholdersIn(text, translated) ==
    SelectSeq(text, LAMBDA piece :
        piece \in DOMAIN translated["ExpressionAttributeNames"]
                      \cup DOMAIN ValuesOf(translated))
Translated == result.op = "update_item" /\ result.translated # <<>>

\* C22: in one compilation the n-th path segment visited is bound to #(n-1) and
\* the n-th literal visited to :(n-1), visiting the actions in the order
\* supplied, the target path of an action before its value and the arguments
\* of a function node from left to right; when all actions share a verb the
\* placeholders of each kind appear in the text in increasing order; and
\* set(my_int, my_int + 100) gives "SET #0 = #1 + :0" with names
\* {#0: my_int, #1: my_int} and values {:0: 100}.
C22_FreshPlaceholdersInTraversalOrder ==
    Translated =>
        LET names == result.translated["ExpressionAttributeNames"]
            values == ValuesOf(result.translated)
            text == result.translated["UpdateExpression"]
            held == PlaceholdersIn(text, result.translated)
            ns == NameLeaves(result.actions)
            vs == ValueLeaves(result.actions)
        IN  /\ DOMAIN names = {"#" \o ToString(n - 1) : n \in 1..Len(ns)}
            /\ \A n \in 1..Len(ns) : names["#" \o ToString(n - 1)] = ns[n].leaf
            /\ DOMAIN values = {":" \o ToString(n - 1) : n \in 1..Len(vs)}
            /\ \A n \in 1..Len(vs) : values[":" \o ToString(n - 1)] = vs[n].leaf
            /\ (\A i \in 1..Len(result.actions) :
                    result.actions[i].update_action = result.actions[1].update_action)
                   => /\ SelectSeq(held, LAMBDA p : p \in DOMAIN names) =
                             [n \in 1..Len(ns) |-> "#" \o ToString(n - 1)]
                      /\ SelectSeq(held, LAMBDA p : p \in DOMAIN values) =
                             [n \in 1..Len(vs) |-> ":" \o ToString(n - 1)]
            /\ result.calls = <<Call("set", my_int, Attr_plus(my_int, Value("100")),
                                     IndexNone)>>
                   => /\ text = <<"SET", " ", "#0", " = ", "#1", " ", "+", " ", ":0">>
                      /\ names = ("#0" :> "my_int") @@ ("#1" :> "my_int")
                      /\ values = (":0" :> "100")

\* set(my_int, my_int + 100) followed by set_default(my_int, 100): the second
\* action and its if_not_exists node go on from #2 and :1
C22_Witness ==
    /\ Translated
    /\ result.calls = <<Call("set", my_int, Attr_plus(my_int, Value("100")), IndexNone),
                        Call("set_default", my_int, Value("100"), IndexNone)>>
    /\ result.translated["UpdateExpression"] =
           <<"SET", " ", "#0", " = ", "#1", " ", "+", " ", ":0", ", ",
             "#2", " = ", "if_not_exists", "(", "#3", ", ", ":1", ")">>
    /\ result.translated["ExpressionAttributeValues"] = (":0" :> "100") @@ (":1" :> "100")

\* C23: no store call and no transaction item of an update carries an
\* ExpressionAttributeValues map that is present but empty.
C23_NoEmptyValueMap ==
    (result.op = "update_item" /\ result.request # <<>>) =>
        ("ExpressionAttributeValues" \in DOMAIN result.request
             => DOMAIN result.request["ExpressionAttributeValues"] # {})

\* an argument of update() that is a remove() with an index that is neither
\* None nor exactly an int
BadRemove(calls) ==
    \E i \in 1..Len(calls) :
        calls[i].method = "remove" /\ calls[i].index.type \notin {"NoneType", "int"}

\* C24: an update written with a remove() whose index is not exactly an int
\* raises ValueError with no expression text and no allocator entry produced,
\* no store call made, nothing buffered in the transaction and the store and
\* the instance left as they were.
C24_BadRemoveIndexFailsFirst ==
    [][(result'.op = "update_item" /\ result'.calls # <<>> /\ BadRemove(result'.calls)
            /\ ~getattribute_raises(unrefreshed, result'.table, result'.key))
           => /\ result'.raised = "ValueError"
              /\ result'.translated = <<>> /\ result'.update_data = <<>>
              /\ result'.request = <<>> /\ result'.route = "none"
              /\ UNCHANGED <<tw, table_items, tx_calls, bw_calls, unrefreshed>>]_vars

\* remove(CustomInt(0)) after a set() inside a transaction scope: ValueError,
\* nothing compiled, the writer's buffer empty
C24_Witness ==
    /\ result.op = "update_item"
    /\ Len(result.calls) = 2
    /\ result.calls[1].method = "set"
    /\ result.calls[2].method = "remove" /\ result.calls[2].index.type = "CustomInt"
    /\ result.raised = "ValueError"
    /\ result.translated = <<>>
    /\ transaction_writer_var[MainFlow] = 1
    /\ tw[1].items = <<>>

\* a mapping key whose value is null, at any depth of a value
RECURSIVE HoldsNullKey(_)
HoldsNullKey(data) ==
    \/ /\ data.kind = "dict"
       /\ \E i \in 1..Len(data.items) : data.items[i].value.kind = "None"
    \/ \E i \in 1..Len(data.items) : HoldsNullKey(data.items[i].value)

\* C25: serialize applied to its own result gives that result again, and the
\* result holds no mapping key whose value is null at any depth.
C25_SerializeIdempotentNoNullKey ==
    result.op = "serialize" =>
        /\ serialize(result.serialized) = result.serialized
        /\ ~HoldsNullKey(result.serialized)

\* the writer of the innermost transaction scope among the open scopes of a
\* flow, none when there is no such scope
EnclosingWriter(scopes) ==
    LET open == {i \in 1..Len(scopes) : scopes[i].kind = "tx"}
    IN  IF open = {} THEN NoWriter
        ELSE scopes[CHOOSE i \in open : \A j \in open : j <= i].id

\* C26: when a flow leaves a transaction scope, with or without an exception
\* of the body and whether or not the commit made on exit is rejected, its
\* current transaction writer is again the one of before the scope: the writer
\* of the enclosing scope, none for a top-level scope.
C26_ExitRestoresWriter ==
    [][\A f \in Flows :
          (Len(stack'[f]) < Len(stack[f]) /\ Top(f).kind = "tx")
              => transaction_writer_var'[f] = EnclosingWriter(stack'[f])]_vars

\* the inner of two nested scopes left with its commit rejected: the outer
\* writer is current again
C26_Witness ==
    /\ result.op = "tx_exit" /\ result.raised \notin {"none", "BodyError"}
    /\ Len(stack[MainFlow]) = 1 /\ stack[MainFlow][1].id = 1
    /\ tw[2].made
    /\ transaction_writer_var[MainFlow] = 1

\* a step in which update(..., refresh=False) of an instance that can be used
\* is applied by the store or buffered by the transaction writer, and returns
UpdateWithoutRefreshSucceeds ==
    /\ next_id' = next_id + 1
    /\ result'.op = "update_item" /\ result'.has_actions /\ ~result'.refresh
    /\ result'.raised = "none"
    /\ result'.route \in {"direct", "transact"}
    /\ result'.route = "direct" =>
           condition_holds(table_items, result'.table, result'.key, result'.cond)

\* C27: an update(..., refresh=False) that succeeds leaves the instance
\* unrefreshed; on an unrefreshed instance the lookup of a field or of save,
\* update or delete raises and that of refresh, ignore_unrefreshed or
\* ConditionException does not, and a call of update raises and changes
\* nothing; the instance stops being unrefreshed only in a step of refresh(),
\* which has then loaded the stored item into the fields, or of
\* ignore_unrefreshed(), which has loaded nothing.
C27_UnrefreshedUntilRefreshOrIgnore ==
    [][LET t == result'.table
           k == result'.key
       IN  /\ UpdateWithoutRefreshSucceeds => <<t, k>> \in unrefreshed'
           /\ (result'.op = "getattr" /\ <<t, k>> \in unrefreshed) =>
                 /\ result'.attr \in {<<"my_str">>, <<"save">>, <<"update">>, <<"delete">>}
                        => result'.raised = "NotRefreshedError"
                 /\ result'.attr \in {<<"refresh">>, <<"ignore_unrefreshed">>,
                                      <<"ConditionException">>}
                        => result'.raised = "none"
           /\ (result'.op = "update_item" /\ next_id' = next_id + 1
                   /\ <<t, k>> \in unrefreshed) =>
                 /\ result'.raised = "NotRefreshedError"
                 /\ UNCHANGED <<tw, table_items, tx_calls, unrefreshed>>
           /\ \A i \in unrefreshed \ unrefreshed' :
                 /\ i = <<t, k>>
                 /\ result'.op \in {"refresh", "ignore_unrefreshed"}
                 /\ result'.op = "refresh" => result'.loaded
                 /\ result'.op = "ignore_unrefreshed" => ~result'.loaded
      ]_vars

\* C28: a manual commit() inside a transaction scope with a non-empty buffer
\* makes one store call carrying the whole buffer, empties the buffer and
\* increases batches_submitted by exactly one; with an empty buffer it makes no
\* store call and changes nothing; operations added after a manual commit are
\* the buffer that the next commit (manual or at normal scope exit) sends.
C28_ManualCommitSendsAndEmptiesBuffer ==
    [][\A w \in TxWriters :
          /\ (result'.op = "tx_commit" /\ InScope(result'.flow, "tx", w)) =>
                IF tw[w].items # <<>>
                THEN /\ Len(tx_calls') = Len(tx_calls) + 1
                     /\ SubSeq(tx_calls', 1, Len(tx_calls)) = tx_calls
                     /\ tx_calls'[Len(tx_calls')].items = tw[w].items
                     /\ tw'[w].items = <<>>
                     /\ tw'[w].batches_submitted = tw[w].batches_submitted + 1
                ELSE UNCHANGED <<tw, tx_calls, table_items, transaction_writer_var,
                                 stack, unrefreshed>>
          /\ (result.op = "tx_commit" /\ InScope(result.flow, "tx", w)
                /\ result'.op \in {"put_item", "delete_item", "transaction_condition"}
                /\ result'.raised = "none"
                /\ Len(tx_calls') = Len(tx_calls)) =>
                    /\ Len(tw'[w].items) = 1
                    /\ tw'[w].items[1].id = next_id
      ]_vars

\* C29 as stated: within one translate call a repeated path segment reuses the
\* name placeholder already allocated for it, so no two placeholders of the
\* name map are bound to the same segment.
C29_RepeatedSegmentReusesPlaceholder ==
    Translated =>
        LET names == result.translated["ExpressionAttributeNames"]
        IN  \A k1, k2 \in DOMAIN names : names[k1] = names[k2] => k1 = k2

\* C29 amended: within one translate call, where all supplied actions share one
\* allocator, every occurrence of a path segment gets a placeholder of its own,
\* also when the segment was used before in the same action or in an earlier
\* one: a segment has as many placeholders as occurrences, and no name
\* placeholder appears twice in the expression text.
C29_EveryOccurrenceFreshPlaceholder ==
    Translated =>
        LET names == result.translated["ExpressionAttributeNames"]
            text == result.translated["UpdateExpression"]
            ns == NameLeaves(result.actions)
        IN  /\ \A n \in 1..Len(ns) :
                  Cardinality({k \in DOMAIN names : names[k] = ns[n].leaf}) =
                      Cardinality({m \in 1..Len(ns) : ns[m].leaf = ns[n].leaf})
            /\ \A i, j \in 1..Len(text) :
                  (i # j /\ text[i] \in DOMAIN names) => text[i] # text[j]

\* two actions of one call on the same path were translated: the segment is
\* bound under several placeholders
C29_Witness ==
    /\ Translated
    /\ Len(result.actions) = 2
    /\ result.actions[1].path = result.actions[2].path
    /\ LET names == result.translated["ExpressionAttributeNames"]
       IN  Cardinality({k \in DOMAIN names :
                           names[k] = str(result.actions[1].path.name)}) >= 3

\* C30: after translating a list of actions the name map's keys are exactly
\* #0..#(n-1) and the value map's keys exactly :0..:(m-1), n being the number
\* of path segments visited and m the number of literal occurrences; the maps
\* only grow while the actions are compiled one after the other (the maps after
\* any leading part of the list are contained, binding for binding, in the final
\* maps), and each key occurs exactly once in the expression text.
C30_DenseKeysAppendOnly ==
    Translated =>
        LET names == result.translated["ExpressionAttributeNames"]
            values == ValuesOf(result.translated)
            text == result.translated["UpdateExpression"]
            n == Len(NameLeaves(result.actions))
            m == Len(ValueLeaves(result.actions))
        IN  /\ DOMAIN names = {"#" \o ToString(i) : i \in 0..(n - 1)}
            /\ DOMAIN values = {":" \o ToString(i) : i \in 0..(m - 1)}
            /\ \A i \in 0..Len(result.actions) :
                  LET before == build_all(SubSeq(result.actions, 1, i),
                                          Variables_init).variables
                  IN  /\ \A key \in DOMAIN before.attributes :
                            key \in DOMAIN names /\ names[key] = before.attributes[key]
                      /\ \A key \in DOMAIN before.values :
                            key \in DOMAIN values /\ values[key] = before.values[key]
            /\ \A key \in DOMAIN names \cup DOMAIN values :
                  Cardinality({i \in 1..Len(text) : text[i] = key}) = 1

\* a dotted path read and written, next to another action: five name
\* placeholders and two value placeholders
C30_Witness ==
    /\ Translated
    /\ Len(result.actions) = 2
    /\ Cardinality(DOMAIN result.translated["ExpressionAttributeNames"]) = 5
    /\ Cardinality(DOMAIN ValuesOf(result.translated)) = 2

\* the bindings of a map of a request, empty when the request has no such map
MapOf(request, name) == IF name \in DOMAIN request THEN request[name] ELSE <<>>
\* an update carrying a condition was buffered in a transaction
ConditionalUpdateBuffered ==
    /\ result.op = "update_item" /\ result.route = "transact"
    /\ result.cond # "none" /\ result.request # <<>>

\* C31: for an update carrying a condition that is added to a transaction, the
\* condition's placeholders differ from the update expression's placeholders,
\* and the merged name map and value map of the buffered item hold every
\* binding of both expressions, none overwritten.
C31_ConditionPlaceholdersDisjoint ==
    ConditionalUpdateBuffered =>
        LET condition == serialize_condition(result.cond)
            c_names == MapOf(condition, "ExpressionAttributeNames")
            c_values == MapOf(condition, "ExpressionAttributeValues")
            u_names == MapOf(result.update_data, "ExpressionAttributeNames")
            u_values == MapOf(result.update_data, "ExpressionAttributeValues")
            names == MapOf(result.request, "ExpressionAttributeNames")
            values == MapOf(result.request, "ExpressionAttributeValues")
        IN  /\ DOMAIN c_names \cap DOMAIN u_names = {}
            /\ DOMAIN c_values \cap DOMAIN u_values = {}
            /\ DOMAIN names = DOMAIN c_names \cup DOMAIN u_names
            /\ \A key \in DOMAIN c_names : names[key] = c_names[key]
            /\ \A key \in DOMAIN u_names : names[key] = u_names[key]
            /\ DOMAIN values = DOMAIN c_values \cup DOMAIN u_values
            /\ \A key \in DOMAIN c_values : values[key] = serialize_data(c_values)[key]
            /\ \A key \in DOMAIN u_values : values[key] = serialize_data(u_values)[key]

\* an update with a literal and a condition with a literal were merged
C31_Witness ==
    /\ ConditionalUpdateBuffered
    /\ result.cond = "eq"
    /\ {":0", ":v0"} \subseteq DOMAIN MapOf(result.request, "ExpressionAttributeValues")
    /\ {"#0", "#1", "#n0"} \subseteq DOMAIN MapOf(result.request, "ExpressionAttributeNames")

\* the expression and the two maps a compilation gave, whether printed by
\* str() or returned by translate_updates
CompiledOf(r) ==
    IF r.op = "str"
    THEN [text |-> r.printed["Expression"], names |-> r.printed["Attributes"],
          values |-> r.printed["Values"]]
    ELSE [text |-> r.translated["UpdateExpression"],
          names |-> r.translated["ExpressionAttributeNames"],
          values |-> ValuesOf(r.translated)]
Compilations == {"str", "translate_updates"}

\* C32: every compilation, by str()/repr() of an action or by
\* translate_updates, works with its own allocator: the placeholder numbers
\* depend only on the order in which paths and literals are visited (the n-th
\* segment visited is #(n-1), the m-th literal :(m-1)), whatever was printed or
\* compiled before; compiling the same actions twice in a row gives the same
\* expression and maps; and a compilation changes nothing but its own result.
C32_PlaceholdersPureFunctionOfTraversal ==
    [][(result'.op \in Compilations /\ next_id' = next_id + 1) =>
          LET now == CompiledOf(result')
              ns == NameLeaves(result'.actions)
              vs == ValueLeaves(result'.actions)
          IN  /\ DOMAIN now.names = {"#" \o ToString(n - 1) : n \in 1..Len(ns)}
              /\ \A n \in 1..Len(ns) : now.names["#" \o ToString(n - 1)] = ns[n].leaf
              /\ DOMAIN now.values = {":" \o ToString(n - 1) : n \in 1..Len(vs)}
              /\ \A n \in 1..Len(vs) : now.values[":" \o ToString(n - 1)] = vs[n].leaf
              /\ (result.op \in Compilations /\ result.actions = result'.actions)
                     => CompiledOf(result) = now
              /\ UNCHANGED <<tw, transaction_writer_var, bw, batch_writer_attr, stack,
                             tx_calls, bw_calls, table_items, unrefreshed>>
      ]_vars

\* an action was printed or compiled after an earlier compilation, and it has
\* both path segments and a literal
C32_Witness ==
    /\ result.op \in Compilations
    /\ next_id = 3
    /\ "#1" \in DOMAIN CompiledOf(result).names
    /\ ":0" \in DOMAIN CompiledOf(result).values

\* the items of a sequence of pages, page after page
RECURSIVE ItemsOf(_)
ItemsOf(pages) == IF pages = <<>> THEN <<>> ELSE pages[1].items \o ItemsOf(Tail(pages))
\* a query() or scan() was iterated to its end
Iterated == result.op \in {"query", "scan"} /\ result.raised = "none"

\* C33: query() and scan() request pages until a page has no continuation key:
\* the first request carries the caller's key and each next one the key of the
\* page before it; every page but the last has a key (also a page without
\* items) and the last has none; has_more is true exactly when the page has a
\* key; the items yielded are the items of the pages in page order, each
\* matching row of the table exactly once.
C33_PagesUntilNoToken ==
    Iterated =>
        LET pages == result.pages
            requests == result.requests
            matching ==
                SelectSeq(ascending(table_items[result.table]),
                          LAMBDA k : /\ result.op = "scan" \/ k = result.key
                                     /\ ~result.args.last_evaluated_key.present
                                            \/ k > result.args.last_evaluated_key.key
                                     /\ filter_passes(result.cond, k))
        IN  /\ Len(pages) >= 1 /\ Len(requests) = Len(pages)
            /\ requests[1] = result.args.last_evaluated_key
            /\ \A i \in 2..Len(pages) : requests[i] = pages[i - 1].last_evaluated_key
            /\ \A i \in 1..Len(pages) :
                  /\ pages[i].has_more = pages[i].last_evaluated_key.present
                  /\ pages[i].last_evaluated_key.present = (i < Len(pages))
            /\ result.yielded = ItemsOf(pages)
            /\ result.yielded = matching

\* a scan went over a page without items that had a key, and on to a later
\* page with an item
C33_Witness ==
    /\ Iterated
    /\ \E i, j \in 1..Len(result.pages) :
          /\ i < j
          /\ result.pages[i].items = <<>> /\ result.pages[i].last_evaluated_key.present
          /\ result.pages[j].items # <<>>

\* the store evaluates the condition of an update() during the call and finds
\* it false: the update goes to the store directly, or the add of the update
\* to a transaction triggers a commit that the store rejects
UpdateConditionFailsAtStore ==
    /\ next_id' = next_id + 1
    /\ result'.op = "update_item" /\ result'.cond # "none"
    /\ ~result'.require_condition
    /\ ~condition_holds(table_items, result'.table, result'.key, result'.cond)
    /\ \/ result'.route = "direct"
       \/ /\ result'.route = "transact"
          /\ Len(tx_calls') = Len(tx_calls) + 1
          /\ ~tx_calls'[Len(tx_calls')].ok

\* C34 as stated: when the condition of an update() fails at the store and
\* require_condition is false, update returns without raising, the instance is
\* not marked unrefreshed, no refresh read is made and nothing is loaded into
\* the instance.
C34_FailedConditionLeavesInstanceUntouched ==
    [][UpdateConditionFailsAtStore =>
          /\ result'.raised = "none"
          /\ unrefreshed' = unrefreshed
          /\ ~result'.read /\ ~result'.loaded /\ ~result'.warned
      ]_vars

\* C34 amended: the same holds when the update is sent to the store directly
\* (no transaction is open); when the failing condition is found by a commit
\* that the add of the update triggers, the store's error reaches the caller,
\* and the instance is still neither marked unrefreshed nor refreshed.
C34_FailedConditionOutsideTransaction ==
    [][UpdateConditionFailsAtStore =>
          /\ result'.raised = IF result'.route = "direct" THEN "none" ELSE "StoreError"
          /\ unrefreshed' = unrefreshed
          /\ ~result'.read /\ ~result'.loaded /\ ~result'.warned
          /\ table_items' = table_items
      ]_vars

\* an update with refresh=True and a failing condition returned quietly
C34_Witness ==
    /\ result.op = "update_item" /\ result.route = "direct"
    /\ result.cond = "exists" /\ result.key \notin table_items[result.table]
    /\ ~result.require_condition /\ result.refresh
    /\ result.raised = "none" /\ ~result.read
    /\ <<result.table, result.key>> \notin unrefreshed

\* the placeholder tokens an update expression of SpecRequest can hold
PlaceholderTokens ==
    UNION {{"#" \o ToString(n), ":" \o ToString(n)} : n \in 0..(4 * MaxCalls)}

\* C35: in every update() request handed to the store or buffered in a
\* transaction, whatever literal the actions carry (None included), each
\* placeholder token (#n or :n) of UpdateExpression is a key of the
\* ExpressionAttributeNames or of the ExpressionAttributeValues map of that
\* request.
C35_PlaceholdersBound ==
    (result.op = "update_item" /\ result.request # <<>>) =>
        LET text == result.request["UpdateExpression"]
            names == MapOf(result.request, "ExpressionAttributeNames")
            values == MapOf(result.request, "ExpressionAttributeValues")
        IN  \A i \in 1..Len(text) :
                text[i] \in PlaceholderTokens =>
                    text[i] \in DOMAIN names \cup DOMAIN values

\* the add of a write to the current transaction was rejected: the buffer was
\* full without auto-commit, or the table is of another region
AddRejected ==
    /\ next_id' = next_id + 1
    /\ result'.route = "transact"
    /\ result'.raised \in {"MaxItemsError", "AssertionError"}

\* C36: a rejected transaction add makes no store call and leaves the buffer,
\* the batches_submitted counter and the first table of the writer as they
\* were; a normal scope exit right after it still sends the operations
\* buffered before it.
C36_RejectedAddChangesNothing ==
    [][/\ AddRejected => UNCHANGED <<tw, tx_calls, table_items, transaction_writer_var>>
       /\ \A w \in TxWriters :
             (/\ result.route = "transact"
              /\ result.raised \in {"MaxItemsError", "AssertionError"}
              /\ result'.op = "tx_exit" /\ ~result'.exc
              /\ stack[MainFlow] # <<>> /\ Top(MainFlow) = [kind |-> "tx", id |-> w]
              /\ tw[w].items # <<>>) =>
                 /\ Len(tx_calls') = Len(tx_calls) + 1
                 /\ tx_calls'[Len(tx_calls')].items = tw[w].items
      ]_vars

\* a write to a table of another region was rejected while the buffer held
\* an operation
C36_Witness ==
    /\ result.route = "transact" /\ result.raised = "AssertionError"
    /\ result.table = "TableWest"
    /\ tw[1].items # <<>> /\ tw[1].first_table = "Table"

\* the submission failures of _commit: the store's own error, or the retries
\* of invoke_with_backoff used up
SubmissionFailures == {"StoreError", "MaxAttemptsError"}

\* C37: when a step's batch submission fails (store error or retries used up),
\* the writer's buffer afterwards is exactly the group that was handed to the
\* submission and its batches_submitted counter is unchanged; and a step that
\* shrinks the buffer or moves the counter made a submission whose last call
\* came back with nothing unprocessed and did not fail.
C37_FailedSubmissionKeepsBufferAndCounter ==
    [][ /\ (Len(bw_calls') > Len(bw_calls) /\ result'.raised \in SubmissionFailures)
           => /\ bw'[1].batch = bw_calls'[Len(bw_calls) + 1].items
              /\ bw'[1].batches_submitted = bw[1].batches_submitted
        /\ (\/ bw'[1].batches_submitted # bw[1].batches_submitted
            \/ Len(bw'[1].batch) < Len(bw[1].batch))
           => /\ result'.raised \notin SubmissionFailures
              /\ Len(bw_calls') > Len(bw_calls)
              /\ bw_calls'[Len(bw_calls')].unprocessed = <<>>
              /\ bw'[1].batch = <<>>
              /\ bw'[1].batches_submitted = bw[1].batches_submitted + 1 ]_vars

\* a group of two refused after an earlier group went through
C37_Witness ==
    /\ result.op = "bw_add"
    /\ result.raised \in SubmissionFailures
    /\ Len(bw[1].batch) >= 2
    /\ bw[1].batches_submitted >= 1
    /\ bw_calls # <<>>
    /\ bw_calls[Len(bw_calls)].items = bw[1].batch

\* C38: a writer made with auto_commit on and 1 <= commit_every <= 100 never
\* holds more than commit_every buffered operations once an add() has returned
\* or raised, a rejected automatic commit included.
C38_AutoCommitBoundsBuffer ==
    \A w \in TxWriters :
        (/\ tw[w].made
         /\ tw[w].auto_commit
         /\ tw[w].commit_max >= 1
         /\ tw[w].commit_max <= TRANSACTION_MAX_ITEMS)
        => Len(tw[w].items) <= tw[w].commit_max

\* C39: an instance stops being marked unrefreshed only in a step of refresh()
\* that raised nothing and loaded the stored item, or of ignore_unrefreshed();
\* a refresh() that raises (the item is gone) loads nothing into the fields and
\* leaves a marked instance marked.
C39_FailedRefreshStaysUnrefreshed ==
    [][/\ \A i \in unrefreshed \ unrefreshed' :
             \/ result'.op = "refresh" /\ result'.raised = "none" /\ result'.loaded
             \/ result'.op = "ignore_unrefreshed"
       /\ (result'.op = "refresh" /\ result'.raised # "none") =>
             /\ ~result'.loaded
             /\ <<result'.table, result'.key>> \in unrefreshed
                    => <<result'.table, result'.key>> \in unrefreshed'
      ]_vars

\* C40: the table that a writer registered first stays registered for the rest
\* of its scope; once a commit has emptied the buffer, an add on a table of
\* another region than the first-registered one still raises, buffers nothing
\* and reaches no store; and every commit call of the scope names as its client
\* the table of the first operation that the scope ever buffered.
C40_FirstTablePinnedAcrossCommits ==
    [][/\ \A w \in TxWriters :
             /\ tw[w].first_table # NoTable => tw'[w].first_table = tw[w].first_table
             /\ (/\ InScope(MainFlow, "tx", w)
                 /\ tw[w].batches_submitted >= 1
                 /\ tw[w].items = <<>>
                 /\ next_id' = next_id + 1
                 /\ result'.op \in WriteOps \cup {"transaction_condition"}
                 /\ tx_calls # <<>>
                 /\ table_region(result'.table)
                        # table_region(tx_calls[1].items[1].table)) =>
                    /\ result'.raised = "AssertionError"
                    /\ tw'[w].items = <<>>
                    /\ tx_calls' = tx_calls
                    /\ table_items' = table_items
       /\ \A j \in 1..Len(tx_calls') :
             tx_calls'[j].client = tx_calls'[1].items[1].table
      ]_vars

\* a save on the us-west-2 model type refused after the scope's first
\* operation, on a table of the default region, was committed
C40_Witness ==
    /\ InScope(MainFlow, "tx", 1)
    /\ Len(tx_calls) = 1 /\ tx_calls[1].ok
    /\ tx_calls[1].client = "Table"
    /\ tw[1].batches_submitted = 1
    /\ tw[1].items = <<>>
    /\ result.op = "put_item" /\ result.table = "TableWest"
    /\ result.raised = "AssertionError"

====
